---- MODULE Spec2Model ----
(***************************************************************************)
(* A model of the Accounting-App backend (Django REST handlers over a      *)
(* relational schema).  The handlers are modelled as atomic actions over   *)
(* the tables they read and write; the report computations are modelled    *)
(* as operators over the rows they aggregate.                              *)
(*                                                                         *)
(* The module holds several specifications over the same variables, one    *)
(* per group of handlers:                                                  *)
(*   SpecUsers    registration, login, profile, admin user management,     *)
(*                bearer-token permission check                            *)
(***************************************************************************)
EXTENDS Integers, Sequences, FiniteSets, TLC

VARIABLES
    users,        \* table Users: set of rows
    nextUserId,   \* AutoField sequence of Users.user_id
    tokens,       \* access tokens issued so far (held by clients)
    now,          \* wall clock
    logins,       \* table UserLogin: the number of rows of each user
    stale,        \* history: tokens issued before their user was deactivated or deleted
    resp,         \* the last response
    clients,      \* table Clients
    categories,   \* table ProductCategories
    products,     \* table Products
    orders,       \* table PurchaseOrders
    invoices,     \* table Invoice
    expenses,     \* table UserExpense
    activity,     \* table ActivityLog
    nextId,       \* AutoField sequence of each business table
    listing,      \* the data of the last list or report response
    otps,         \* table OTPs
    companies,    \* table UserCompany
    saving        \* purchase orders between PurchaseOrders.save's read and its insert

userVars == <<users, nextUserId, tokens, now, logins, stale, otps, companies, saving>>
tableVars == <<clients, categories, products, orders, invoices, expenses, activity, nextId>>
dataVars == <<clients, categories, products, orders, invoices, expenses, activity, nextId,
              listing>>
vars == <<users, nextUserId, tokens, now, logins, stale, resp,
          clients, categories, products, orders, invoices, expenses, activity, nextId, listing,
          otps, companies, saving>>

(***************************************************************************)
(* Bounds                                                                  *)
(***************************************************************************)
MaxUsers == 2      \* rows ever inserted into Users
MaxTime == 2       \* clock ticks
MaxTokens == 2     \* tokens kept in the model
MaxLogins == 2     \* UserLogin rows kept in the model
TokenLife == 1     \* ticks for which an access token is unexpired
MaxRows == 2       \* rows ever inserted into a business table
MaxOrders == 100   \* rows ever inserted into PurchaseOrders
Existing == 98     \* purchase orders on file when the order-number runs start
MaxInvoices == 2   \* invoices on file when the aging reports are drawn
TicksPerYear == 2  \* clock ticks in a calendar year
MaxActivity == 5   \* rows of ActivityLog the home page may add to
MaxLogged == 1     \* purchase orders created while the activity log is watched
MaxOtps == 2       \* rows ever inserted into OTPs
MaxWorkers == 2    \* requests handled at the same time
OtpLife == 1       \* clock ticks in the five minutes an OTP lives
BaseYear == 2025   \* the calendar year at time 0

\* server workers that handle requests at the same time
Workers == 1..MaxWorkers
Idle == {}

Emails == {"a@x.io", "b@x.io"}
NoEmail == ""
GoodPasswords == {"password1", "password2"}
ShortPassword == "short"
Passwords == GoodPasswords \cup {ShortPassword}
NoToken == [user_id |-> 0, exp |-> 0, signed |-> FALSE]

(***************************************************************************)
(* users/utils.py                                                          *)
(***************************************************************************)
is_required(value) == value = ""

\* django.contrib.auth.hashers as used by UserSerializer and LoginView
make_password(password) == <<"hash", password>>

check_password(password, encoded) == encoded = make_password(password)

\* RoleModel rows: AdminRegisterView writes user_role 1 with is_admin, RegisterView 2
role_name(role_id) == IF role_id = 1 THEN "admin" ELSE "customer"

\* users_utils.get_user_token: an access token naming the user
get_user_token(user_id) == [user_id |-> user_id, exp |-> now + TokenLife, signed |-> TRUE]

UserIds == 1..MaxUsers

RECURSIVE SumOver(_, _)
SumOver(f, S) == IF S = {} THEN 0
                 ELSE LET x == CHOOSE y \in S : TRUE IN f[x] + SumOver(f, S \ {x})

\* rows in UserLogin
LoginRows == SumOver(logins, UserIds)

\* UserLoginSerializer.save: one more UserLogin row for the user
AddLogin(user_id) == [logins EXCEPT ![user_id] = @ + 1]

\* on_delete=CASCADE from UserLogin.user
CascadeLogins(user_id) == [logins EXCEPT ![user_id] = 0]

IssueToken(t) == IF Cardinality(tokens \cup {t}) <= MaxTokens THEN tokens \cup {t} ELSE tokens

(***************************************************************************)
(* Queries on Users                                                        *)
(***************************************************************************)
\* a slip in the filter: is_deleted=True instead of is_deleted=False
ActiveWithEmail_deleted(email) == {u \in users : u.email = email /\ u.is_active /\ u.is_deleted}

\* User.objects.filter(email=email, is_active=True, is_deleted=False)
ActiveWithEmail(email) == {u \in users : u.email = email /\ u.is_active /\ ~u.is_deleted}

\* .first() on an unordered queryset: the row with the lowest primary key
First(rows) == CHOOSE u \in rows : \A v \in rows : u.user_id <= v.user_id

UserById(user_id) == {u \in users : u.user_id = user_id}

\* a slip: the is_active test left out
has_permission_no_active(token) ==
    /\ token.signed
    /\ token.exp > now
    /\ token.user_id # 0
    /\ \E u \in UserById(token.user_id) : ~u.is_deleted

\* base_permission.IsAuthenticated.has_permission
has_permission(token) ==
    /\ token.signed                     \* jwt.decode: InvalidTokenError otherwise
    /\ token.exp > now                  \* jwt.decode: ExpiredSignatureError otherwise
    /\ token.user_id # 0                \* "User id not present in the token."
    /\ \E u \in UserById(token.user_id) :
          /\ ~u.is_deleted              \* "User not found."
          /\ u.is_active                \* "Your account is inactive."

\* request.user as set by has_permission
request_user(token) == First({u \in UserById(token.user_id) : ~u.is_deleted})

Response(op, status, message, token) ==
    [op |-> op, status |-> status, message |-> message, token |-> token]

\* tokens of a user that stop being usable enter the history set
Revoke(uids) == stale \cup {t \in tokens : t.user_id \in uids}

(***************************************************************************)
(* RegisterView.post / AdminRegisterView.post                              *)
(***************************************************************************)
\* the validation chain shared by both register handlers; phone_number is
\* only required by RegisterView
RegisterError(req, needPhone) ==
    IF is_required(req.fullname) THEN "Fullname is required."
    ELSE IF is_required(req.email) THEN "Email is required."
    ELSE IF needPhone /\ is_required(req.phone_number) THEN "Phone number is required."
    ELSE IF is_required(req.password) THEN "Password is required."
    ELSE IF Len(req.password) < 8 THEN "Password must be at least 8 characters long."
    ELSE IF req.password # req.confirm_password THEN "Passwords do not match."
    ELSE IF ActiveWithEmail(req.email) # {} THEN "Email already exists."
    ELSE "ok"

RegisterRequests ==
    [fullname : {"", "Al"}, email : Emails \cup {NoEmail}, phone_number : {"", "1"},
     password : Passwords, confirm_password : GoodPasswords,
     is_active : BOOLEAN, is_admin : BOOLEAN]

NewUser(req, role, admin) ==
    [user_id |-> nextUserId, fullname |-> req.fullname, email |-> req.email,
     password |-> make_password(req.password),
     is_active |-> req.is_active, is_deleted |-> FALSE, is_admin |-> admin, user_role |-> role,
     is_email_verified |-> FALSE]

RegisterView_post(req) ==
    LET err == RegisterError(req, TRUE) IN
    IF err # "ok"
    THEN /\ resp' = Response("register", 400, err, NoToken)
         /\ UNCHANGED <<userVars, dataVars>>
    ELSE /\ nextUserId <= MaxUsers
         /\ LoginRows < MaxLogins
         /\ users' = users \cup {NewUser(req, 2, req.is_admin)}
         /\ nextUserId' = nextUserId + 1
         /\ tokens' = IssueToken(get_user_token(nextUserId))
         /\ logins' = AddLogin(nextUserId)
         /\ resp' = Response("register", 200, "User registered successfully.",
                           get_user_token(nextUserId))
         /\ UNCHANGED <<now, stale, dataVars, otps, companies, saving>>

AdminRegisterView_post(req) ==
    LET err == RegisterError(req, FALSE) IN
    IF err # "ok"
    THEN /\ resp' = Response("admin_register", 400, err, NoToken)
         /\ UNCHANGED <<userVars, dataVars>>
    ELSE /\ nextUserId <= MaxUsers
         /\ users' = users \cup {NewUser(req, 1, TRUE)}
         /\ nextUserId' = nextUserId + 1
         /\ tokens' = IssueToken(get_user_token(nextUserId))
         /\ resp' = Response("admin_register", 200, "Admin registered successfully.",
                           get_user_token(nextUserId))
         /\ UNCHANGED <<now, logins, stale, dataVars, otps, companies, saving>>

(***************************************************************************)
(* LoginView.post                                                          *)
(***************************************************************************)
LoginRequests == [email : Emails \cup {NoEmail}, password : GoodPasswords \cup {""}, is_admin : BOOLEAN]

\* User.objects.filter(email=email, is_admin=<flag>, is_active=True, is_deleted=False)
LoginCandidates(req) == {u \in ActiveWithEmail(req.email) : u.is_admin = req.is_admin}

LoginView_post(req) ==
    IF is_required(req.email)
    THEN /\ resp' = Response("login", 400, "Email is required.", NoToken)
         /\ UNCHANGED <<userVars, dataVars>>
    ELSE IF is_required(req.password)
    THEN /\ resp' = Response("login", 400, "Password is required.", NoToken)
         /\ UNCHANGED <<userVars, dataVars>>
    ELSE IF LoginCandidates(req) = {}
    THEN /\ resp' = Response("login", 401, "User not found.", NoToken)
         /\ UNCHANGED <<userVars, dataVars>>
    ELSE LET user == First(LoginCandidates(req)) IN
         IF check_password(req.password, user.password)
         THEN /\ LoginRows < MaxLogins
              /\ tokens' = IssueToken(get_user_token(user.user_id))
              /\ logins' = AddLogin(user.user_id)
              /\ resp' = Response("login", 200, "User logged in successfully.",
                                  get_user_token(user.user_id))
              /\ UNCHANGED <<users, nextUserId, now, stale, dataVars, otps, companies, saving>>
         ELSE /\ resp' = Response("login", 401, "Invalid password.", NoToken)
              /\ UNCHANGED <<userVars, dataVars>>

(***************************************************************************)
(* UserSerializer partial update, as used by UserProfileView.put and       *)
(* UserDetailView.put                                                      *)
(***************************************************************************)
Keep == "keep"
Flag == {Keep, "true", "false"}

\* a partial payload: every field of UserSerializer the model tracks may be sent
AllPatches == [email : Emails \cup {NoEmail}, password : GoodPasswords \cup {""},
               is_active : Flag, is_admin : Flag, user_role : 0..2]

Sent(req) == (IF req.email # NoEmail THEN 1 ELSE 0) + (IF req.password # "" THEN 1 ELSE 0)
             + (IF req.is_active # Keep THEN 1 ELSE 0) + (IF req.is_admin # Keep THEN 1 ELSE 0)
             + (IF req.user_role # 0 THEN 1 ELSE 0)

\* the payloads the model sends: at most one field, or email together with is_active
PutRequests == {r \in AllPatches : Sent(r) <= 1
                   \/ (Sent(r) = 2 /\ r.email # NoEmail /\ r.is_active # Keep)}

UserSerializer_update(u, req) ==
    [u EXCEPT !.email = IF req.email # NoEmail THEN req.email ELSE @,
              !.password = IF req.password # "" THEN make_password(req.password) ELSE @,
              !.is_active = IF req.is_active = Keep THEN @ ELSE req.is_active = "true",
              !.is_admin = IF req.is_admin = Keep THEN @ ELSE req.is_admin = "true",
              !.user_role = IF req.user_role # 0 THEN req.user_role ELSE @]

Save(old, new) == (users \ {old}) \cup {new}

Unusable(new) == IF new.is_active /\ ~new.is_deleted THEN {} ELSE {new.user_id}

(***************************************************************************)
(* user.delete(): the rows that reference the user go with it              *)
(***************************************************************************)
\* on_delete=CASCADE from ClientModel, ProductCategory, Products and
\* PurchaseOrders to User, from Products to ProductCategory, from
\* PurchaseOrders to ClientModel and from OrderItems to Products
CascadeUser(user_id) ==
    LET gone_clients == {c.id : c \in {x \in clients : x.user = user_id}}
        gone_categories == {c.id : c \in {x \in categories : x.user = user_id}}
        gone_products == {p.id : p \in {x \in products : x.user = user_id
                                                          \/ x.category \in gone_categories}} IN
    /\ clients' = {c \in clients : c.user # user_id}
    /\ categories' = {c \in categories : c.user # user_id}
    /\ products' = {p \in products : p.id \notin gone_products}
    /\ orders' = {[o EXCEPT !.items = @ \ gone_products] :
                    o \in {x \in orders : x.user # user_id /\ x.client \notin gone_clients}}

\* the same for the user's invoices, their items, the user's expenses and the
\* user's company; the entries of the activity log stay
CascadeUserLedger(user_id) ==
    LET gone_clients == {c.id : c \in {x \in clients : x.user = user_id}}
        gone_categories == {c.id : c \in {x \in categories : x.user = user_id}}
        gone_products == {p.id : p \in {x \in products : x.user = user_id
                                                          \/ x.category \in gone_categories}} IN
    /\ invoices' = {[i EXCEPT !.items = {it \in @ : it.product \notin gone_products}] :
                      i \in {x \in invoices : x.user # user_id /\ x.client \notin gone_clients}}
    /\ expenses' = {e \in expenses : e.user # user_id}
    /\ companies' = {c \in companies : c.user # user_id}

(***************************************************************************)
(* UserProfileView.put / delete                                            *)
(***************************************************************************)
UserProfileView_put(t, req) ==
    /\ has_permission(t)
    /\ LET user == request_user(t) IN
       IF /\ req.email # NoEmail
          /\ req.email # user.email
          /\ \E u \in users : u.email = req.email /\ ~u.is_deleted
       THEN /\ resp' = Response("profile_put", 400, "This Email already exists.", NoToken)
            /\ UNCHANGED <<userVars, dataVars>>
       ELSE LET new == UserSerializer_update(user, req) IN
            /\ users' = Save(user, new)
            /\ stale' = Revoke(Unusable(new))
            /\ resp' = Response("profile_put", 200, "User profile updated successfully.", NoToken)
            /\ UNCHANGED <<nextUserId, tokens, now, logins, dataVars, otps, companies, saving>>

\* user.delete(): the row is removed, UserLogin rows cascade
UserProfileView_delete(t) ==
    /\ has_permission(t)
    /\ LET user == request_user(t) IN
       /\ users' = users \ {user}
       /\ logins' = CascadeLogins(user.user_id)
       /\ stale' = Revoke({user.user_id})
       /\ resp' = Response("profile_delete", 200, "User deleted successfully.", NoToken)
       /\ CascadeUser(user.user_id)
       /\ CascadeUserLedger(user.user_id)
       /\ UNCHANGED <<nextUserId, tokens, now, activity, nextId, listing, otps, saving>>

(***************************************************************************)
(* ChangePasswordView.post                                                 *)
(***************************************************************************)
ChangePasswordView_post(t, req) ==
    /\ has_permission(t)
    /\ LET user == request_user(t)
           refuse(message) == /\ resp' = Response("change_password", 400, message, NoToken)
                              /\ UNCHANGED <<userVars, dataVars>> IN
       IF is_required(req.old_password) THEN refuse("Old password is required.")
       ELSE IF is_required(req.new_password) THEN refuse("New password is required.")
       ELSE IF is_required(req.confirm_password) THEN refuse("Confirm password is required.")
       ELSE IF Len(req.new_password) < 8
       THEN refuse("New password should be at least 8 characters long.")
       ELSE IF req.new_password # req.confirm_password
       THEN refuse("Confirm password does not match.")
       ELSE IF ~check_password(req.old_password, user.password)
       THEN refuse("Old password is incorrect.")
       ELSE IF check_password(req.new_password, user.password)
       THEN refuse("New password should not be the same as the old password.")
       ELSE \* UserSerializer(user, data={"password": new_password}, partial=True).save()
            LET new == [user EXCEPT !.password = make_password(req.new_password)] IN
            /\ users' = Save(user, new)
            /\ resp' = Response("change_password", 200, "Password changed successfully.",
                                NoToken)
            /\ UNCHANGED <<nextUserId, tokens, now, logins, stale, dataVars, otps, companies, saving>>

(***************************************************************************)
(* admin_panel UserDetailView.put / delete                                 *)
(***************************************************************************)
UserDetailView_put(t, user_id, req) ==
    /\ has_permission(t)
    /\ LET user == request_user(t) IN
       IF role_name(user.user_role) # "admin"
       THEN /\ resp' = Response("admin_put", 401, "Only Admins Are Allowed.", NoToken)
            /\ UNCHANGED <<userVars, dataVars>>
       ELSE IF UserById(user_id) = {}
       THEN /\ resp' = Response("admin_put", 404, "User not found", NoToken)
            /\ UNCHANGED <<userVars, dataVars>>
       ELSE IF /\ req.email # NoEmail
               /\ \E u \in ActiveWithEmail(req.email) : u.user_id # user_id
       THEN /\ resp' = Response("admin_put", 400, "Email already exists.", NoToken)
            /\ UNCHANGED <<userVars, dataVars>>
       ELSE LET user_obj == First(UserById(user_id))
                new == UserSerializer_update(user_obj, req) IN
            /\ users' = Save(user_obj, new)
            /\ stale' = Revoke(Unusable(new))
            /\ resp' = Response("admin_put", 200, "User updated successfully.", NoToken)
            /\ UNCHANGED <<nextUserId, tokens, now, logins, dataVars, otps, companies, saving>>

UserDetailView_delete(t, user_id) ==
    /\ has_permission(t)
    /\ LET user == request_user(t) IN
       IF role_name(user.user_role) # "admin"
       THEN /\ resp' = Response("admin_delete", 401, "Only Admins Are Allowed.", NoToken)
            /\ UNCHANGED <<userVars, dataVars>>
       ELSE IF {u \in UserById(user_id) : ~u.is_deleted} = {}
       THEN /\ resp' = Response("admin_delete", 404, "User not found", NoToken)
            /\ UNCHANGED <<userVars, dataVars>>
       ELSE /\ users' = users \ UserById(user_id)
            /\ logins' = CascadeLogins(user_id)
            /\ stale' = Revoke({user_id})
            /\ resp' = Response("admin_delete", 200, "User deleted successfully.", NoToken)
            /\ CascadeUser(user_id)
            /\ CascadeUserLedger(user_id)
            /\ UNCHANGED <<nextUserId, tokens, now, activity, nextId, listing, otps, saving>>

(***************************************************************************)
(* Soft delete of a user row (is_deleted := True), time, and a bare        *)
(* authenticated request                                                   *)
(***************************************************************************)
SoftDeleteUser(user_id) ==
    /\ \E u \in UserById(user_id) :
          /\ ~u.is_deleted
          /\ users' = Save(u, [u EXCEPT !.is_deleted = TRUE])
    /\ stale' = Revoke({user_id})
    /\ resp' = Response("soft_delete", 0, "", NoToken)
    /\ UNCHANGED <<nextUserId, tokens, now, logins, dataVars, otps, companies, saving>>

Tick ==
    /\ now < MaxTime
    /\ now' = now + 1
    /\ resp' = Response("tick", 0, "", NoToken)
    /\ UNCHANGED <<users, nextUserId, tokens, logins, stale, dataVars, otps, companies, saving>>

\* tokens a client may present that the server never issued
ForgedTokens == {[user_id |-> i, exp |-> MaxTime + 1, signed |-> FALSE] : i \in 1..MaxUsers}
                   \cup {[user_id |-> 0, exp |-> MaxTime + 1, signed |-> TRUE]}

Authenticate(t) ==
    /\ resp' = IF has_permission(t)
               THEN Response("auth", 200, "granted", t)
               ELSE Response("auth", 403, "denied", t)
    /\ UNCHANGED <<userVars, dataVars>>

(***************************************************************************)
(* Business tables: rows, keys and cascades                                *)
(***************************************************************************)
Tables == {"client", "category", "product", "order", "invoice", "expense", "activity",
           "otp", "company"}

NoListing == [op |-> "none", user |-> 0, rows |-> {}, total |-> 0, parts |-> <<>>]

\* the data of a list or report response
Listing(op, user, rows, total, parts) ==
    [op |-> op, user |-> user, rows |-> rows, total |-> total, parts |-> parts]

\* a request that changes no table and returns no list
Untouched == listing' = NoListing /\ UNCHANGED <<userVars, tableVars>>

\* AutoField: the next primary key of a table
NewId(table) == nextId[table]
Bump(table) == [nextId EXCEPT ![table] = @ + 1]

Ids(rows) == {r.id : r \in rows}

\* Model.objects.filter(pk=id, user=user, is_deleted=False)
Owned(rows, id, user) == {r \in rows : r.id = id /\ r.user = user.user_id /\ ~r.is_deleted}

\* QuerySet.first() on rows selected by primary key
FirstRow(rows) == CHOOSE r \in rows : \A q \in rows : r.id <= q.id

\* on_delete=CASCADE from OrderItems.product
OrdersWithout(rows, pids) == {[o EXCEPT !.items = @ \ pids] : o \in rows}

\* on_delete=CASCADE from InvoiceItems.product
InvoicesWithout(rows, pids) ==
    {[i EXCEPT !.items = {it \in @ : it.product \notin pids}] : i \in rows}

\* str.lower() on the category names of the model
lower(name) == CASE name = "Books" -> "books"
                 [] name = "Phone" -> "phone"
                 [] OTHER -> name

(***************************************************************************)
(* Clients: AddClientView, ClientView, ClientDetailView                    *)
(***************************************************************************)
AddClientView_post(t, req) ==
    /\ has_permission(t)
    /\ LET user == request_user(t) IN
       IF is_required(req.client_name)
       THEN /\ resp' = Response("client_add", 400, "Client Name is required.", NoToken)
            /\ Untouched
       ELSE IF is_required(req.email)
       THEN /\ resp' = Response("client_add", 400, "Email is required.", NoToken)
            /\ Untouched
       ELSE IF is_required(req.phone_number)
       THEN /\ resp' = Response("client_add", 400, "Phone Number is required.", NoToken)
            /\ Untouched
       ELSE IF req.immutable
       THEN \* data['user'] = ... raises on the QueryDict of a form post; the except
            \* clause of this handler answers 201
            /\ resp' = Response("client_add", 201, "AttributeError", NoToken)
            /\ Untouched
       ELSE /\ NewId("client") <= MaxRows
            /\ clients' = clients \cup {[id |-> NewId("client"), user |-> user.user_id,
                                         is_deleted |-> FALSE, client_name |-> req.client_name]}
            /\ nextId' = Bump("client")
            /\ resp' = Response("client_add", 201, "Client added successfully.", NoToken)
            /\ listing' = NoListing
            /\ UNCHANGED <<userVars, categories, products, orders, invoices, expenses,
                           activity>>

\* ClientView.get with no search, user_type or is_favorite filter
ClientView_get(t) ==
    /\ has_permission(t)
    /\ LET user == request_user(t) IN
       /\ listing' = Listing("client_list", user.user_id,
                             Ids({c \in clients : c.user = user.user_id /\ ~c.is_deleted}), 0, <<>>)
       /\ resp' = Response("client_list", 200, "", NoToken)
       /\ UNCHANGED <<userVars, clients, categories, products, orders, invoices, expenses,
                      nextId, activity>>

ClientDetailView_put(t, client_id, req) ==
    /\ has_permission(t)
    /\ LET user == request_user(t) IN
       IF Owned(clients, client_id, user) = {}
       THEN /\ resp' = Response("client_put", 404, "Client not found.", NoToken)
            /\ Untouched
       ELSE LET client_instance == FirstRow(Owned(clients, client_id, user)) IN
            /\ clients' = (clients \ {client_instance})
                             \cup {[client_instance EXCEPT !.client_name = req.client_name]}
            /\ resp' = Response("client_put", 200, "Client updated successfully.", NoToken)
            /\ listing' = NoListing
            /\ UNCHANGED <<userVars, categories, products, orders, invoices, expenses,
                           nextId, activity>>

\* client.delete(): purchase orders and invoices of the client cascade
ClientDetailView_delete(t, client_id) ==
    /\ has_permission(t)
    /\ LET user == request_user(t) IN
       IF Owned(clients, client_id, user) = {}
       THEN /\ resp' = Response("client_delete", 404, "Client not found.", NoToken)
            /\ Untouched
       ELSE /\ clients' = clients \ Owned(clients, client_id, user)
            /\ orders' = {o \in orders : o.client # client_id}
            /\ invoices' = {i \in invoices : i.client # client_id}
            /\ resp' = Response("client_delete", 200, "Client deleted successfully.", NoToken)
            /\ listing' = NoListing
            /\ UNCHANGED <<userVars, categories, products, expenses, nextId, activity>>

(***************************************************************************)
(* Product categories: AddProductCategory, ProductCategoryListView,        *)
(* ProductCategoryDetailView                                               *)
(***************************************************************************)
AddProductCategory_post(t, req) ==
    /\ has_permission(t)
    /\ LET user == request_user(t)
           category_name == lower(req.category_name) IN
       IF is_required(req.category_name)
       THEN /\ resp' = Response("category_add", 400, "Product Category Name Is required", NoToken)
            /\ Untouched
       ELSE IF \E c \in categories : c.category_name = category_name /\ ~c.is_deleted
       THEN /\ resp' = Response("category_add", 400, "Product Category Name already exists", NoToken)
            /\ Untouched
       ELSE /\ NewId("category") <= MaxRows
            /\ categories' = categories \cup
                  {[id |-> NewId("category"), user |-> user.user_id, is_deleted |-> FALSE,
                    is_active |-> TRUE, category_name |-> category_name]}
            /\ nextId' = Bump("category")
            /\ resp' = Response("category_add", 201, "Product Category Added", NoToken)
            /\ listing' = NoListing
            /\ UNCHANGED <<userVars, clients, products, orders, invoices, expenses,
                           activity>>

ProductCategoryListView_get(t) ==
    /\ has_permission(t)
    /\ LET user == request_user(t) IN
       /\ listing' = Listing("category_list", user.user_id,
                             Ids({c \in categories : c.user = user.user_id /\ ~c.is_deleted
                                                     /\ c.is_active}), 0, <<>>)
       /\ resp' = Response("category_list", 200, "Product Category Fetched", NoToken)
       /\ UNCHANGED <<userVars, clients, categories, products, orders, invoices, expenses,
                      nextId, activity>>

\* the row is fetched by category_id and is_deleted only
ProductCategoryDetailView_put(t, category_id, req) ==
    /\ has_permission(t)
    /\ LET user == request_user(t) IN
       IF /\ req.category_name # ""
          /\ \E c \in categories : /\ c.category_name = lower(req.category_name)
                                   /\ c.user = user.user_id /\ ~c.is_deleted
                                   /\ c.id # category_id
       THEN /\ resp' = Response("category_put", 400, "Product Category Name already exists", NoToken)
            /\ Untouched
       ELSE IF {c \in categories : c.id = category_id /\ ~c.is_deleted} = {}
       THEN /\ resp' = Response("category_put", 400, "Product Category Not Found", NoToken)
            /\ Untouched
       ELSE LET category_obj == FirstRow({c \in categories : c.id = category_id /\ ~c.is_deleted}) IN
            /\ categories' = (categories \ {category_obj}) \cup
                  {[category_obj EXCEPT !.category_name =
                        IF req.category_name # "" THEN lower(req.category_name) ELSE @]}
            /\ resp' = Response("category_put", 200, "Product Category Updated", NoToken)
            /\ listing' = NoListing
            /\ UNCHANGED <<userVars, clients, products, orders, invoices, expenses,
                           nextId, activity>>

\* category.delete(): products of the category cascade, and their line items
ProductCategoryDetailView_delete(t, category_id) ==
    /\ has_permission(t)
    /\ LET user == request_user(t)
           gone == Ids({p \in products : p.category = category_id}) IN
       IF Owned(categories, category_id, user) = {}
       THEN /\ resp' = Response("category_delete", 404, "Category Not Found", NoToken)
            /\ Untouched
       ELSE /\ categories' = categories \ Owned(categories, category_id, user)
            /\ products' = {p \in products : p.category # category_id}
            /\ orders' = OrdersWithout(orders, gone)
            /\ invoices' = InvoicesWithout(invoices, gone)
            /\ resp' = Response("category_delete", 200, "Product Category Deleted", NoToken)
            /\ listing' = NoListing
            /\ UNCHANGED <<userVars, clients, expenses, nextId, activity>>

(***************************************************************************)
(* Products: AddProductView, ProductListView, ProductDetailsView           *)
(***************************************************************************)
\* ProductCategory.objects.filter(category_id=category, is_active=True, is_deleted=False)
ValidCategory(category) ==
    \E c \in categories : c.id = category /\ c.is_active /\ ~c.is_deleted

AddProductView_post(t, req) ==
    /\ has_permission(t)
    /\ LET user == request_user(t) IN
       IF is_required(req.name)
       THEN /\ resp' = Response("product_add", 400, "Product Name is required.", NoToken)
            /\ Untouched
       ELSE IF is_required(req.item_sku)
       THEN /\ resp' = Response("product_add", 400, "Item SKU is required.", NoToken)
            /\ Untouched
       ELSE IF req.category = 0
       THEN /\ resp' = Response("product_add", 400, "Product Category is required.", NoToken)
            /\ Untouched
       ELSE IF ~ValidCategory(req.category)
       THEN /\ resp' = Response("product_add", 400, "Invalid Product Category.", NoToken)
            /\ Untouched
       ELSE /\ NewId("product") <= MaxRows
            /\ products' = products \cup
                  {[id |-> NewId("product"), user |-> user.user_id, is_deleted |-> FALSE,
                    name |-> req.name, category |-> req.category]}
            /\ nextId' = Bump("product")
            /\ resp' = Response("product_add", 201, "Product added successfully.", NoToken)
            /\ listing' = NoListing
            /\ UNCHANGED <<userVars, clients, categories, orders, invoices, expenses,
                           activity>>

\* ProductListView.get with no category filter
ProductListView_get(t) ==
    /\ has_permission(t)
    /\ LET user == request_user(t) IN
       /\ listing' = Listing("product_list", user.user_id,
                             Ids({p \in products : p.user = user.user_id /\ ~p.is_deleted}), 0, <<>>)
       /\ resp' = Response("product_list", 200, "Product Data Fetched", NoToken)
       /\ UNCHANGED <<userVars, clients, categories, products, orders, invoices, expenses,
                      nextId, activity>>

\* a payload with a name and, when category is not 0, a category
ProductDetailsView_put(t, product_id, req) ==
    /\ has_permission(t)
    /\ LET user == request_user(t) IN
       IF req.category # 0 /\ ~ValidCategory(req.category)
       THEN /\ resp' = Response("product_put", 400, "Invalid Product Category.", NoToken)
            /\ Untouched
       ELSE IF Owned(products, product_id, user) = {}
       THEN /\ resp' = Response("product_put", 400, "Product Not Found.", NoToken)
            /\ Untouched
       ELSE LET product == FirstRow(Owned(products, product_id, user)) IN
            /\ products' = (products \ {product}) \cup
                  {[product EXCEPT !.name = req.name,
                                   !.category = IF req.category # 0 THEN req.category ELSE @]}
            /\ resp' = Response("product_put", 200, "Product Updated Successfully", NoToken)
            /\ listing' = NoListing
            /\ UNCHANGED <<userVars, clients, categories, orders, invoices, expenses,
                           nextId, activity>>

\* product.delete(): line items of the product cascade
ProductDetailsView_delete(t, product_id) ==
    /\ has_permission(t)
    /\ LET user == request_user(t) IN
       IF Owned(products, product_id, user) = {}
       THEN /\ resp' = Response("product_delete", 400, "Product Not Found.", NoToken)
            /\ Untouched
       ELSE /\ products' = products \ Owned(products, product_id, user)
            /\ orders' = OrdersWithout(orders, {product_id})
            /\ invoices' = InvoicesWithout(invoices, {product_id})
            /\ resp' = Response("product_delete", 200, "Product Deleted Successfully.", NoToken)
            /\ listing' = NoListing
            /\ UNCHANGED <<userVars, clients, categories, expenses, nextId, activity>>

(***************************************************************************)
(* PurchaseOrders.save: the generated order_number                         *)
(***************************************************************************)
\* a nullable column: <<>> is NULL, <<v>> holds v
Null == <<>>
Some(v) == <<v>>
Val(x) == x[1]

\* now().year
YearOf(time) == BaseYear + (time \div TicksPerYear)

\* ''.join(c for c in fullname if c.isalpha())[:2].upper() on the names of the model
prefix(fullname) == CASE fullname = "Al" -> "AL"
                      [] fullname = "Ali" -> "AL"
                      [] fullname = "Bo" -> "BO"
                      [] OTHER -> ""

\* str(n) as a sequence of decimal digits
RECURSIVE Digits(_)
Digits(n) == IF n < 10 THEN <<n>> ELSE Append(Digits(n \div 10), n % 10)

\* f"{n:02d}"
next_seq(n) == IF n < 10 THEN <<0, n>> ELSE Digits(n)

\* int(s)
RECURSIVE int(_)
int(s) == IF s = <<>> THEN 0 ELSE 10 * int(SubSeq(s, 1, Len(s) - 1)) + s[Len(s)]

\* string order of two digit strings: the first differing character decides,
\* a proper prefix comes first
RECURSIVE StrLess(_, _)
StrLess(a, b) ==
    IF a = <<>> THEN b # <<>>
    ELSE IF b = <<>> THEN FALSE
    ELSE IF Head(a) # Head(b) THEN Head(a) < Head(b)
    ELSE StrLess(Tail(a), Tail(b))

\* the order numbers share "PR-YYYY-" up to the sequence part
OrderNumber(pre, year, seq) == [pre |-> pre, year |-> year, seq |-> seq]

\* filter(user=self.user, order_number__startswith=base_prefix)
SamePrefix(user, year) ==
    {o \in orders : /\ o.user = user.user_id
                    /\ o.order_number.pre = prefix(user.fullname)
                    /\ o.order_number.year = year}

\* .order_by('-order_number').first()
latest_order(rows) ==
    LET heads == {Head(o.order_number.seq) : o \in rows}
        top == CHOOSE h \in heads : \A g \in heads : g <= h
        \* the first character decides, so the greatest begins with the greatest one
        leading == {o \in rows : Head(o.order_number.seq) = top} IN
    CHOOSE o \in leading : \A q \in leading :
        q = o \/ StrLess(q.order_number.seq, o.order_number.seq)

\* the number PurchaseOrders.save assigns when none is given
generated_number(user) ==
    LET year == YearOf(now)
        rows == SamePrefix(user, year) IN
    OrderNumber(prefix(user.fullname), year,
                 IF rows = {} THEN <<0, 1>>
                 ELSE next_seq(int(latest_order(rows).order_number.seq) + 1))

\* unique=True on order_number
IntegrityError(number) == \E o \in orders : o.order_number = number

(***************************************************************************)
(* Purchase orders: CreatePurchaseOrderView, PurchaseOrderListView,        *)
(* PurchaseOrderDetailView                                                 *)
(***************************************************************************)
OrderTypes == {"purchase", "sales"}

\* Products.objects.filter(product_id=..., user=user, is_deleted=False).exists()
\* for every item of the payload
ValidItems(pids, user) == \A p \in pids : Owned(products, p, user) # {}

\* a slip: update_or_create keyed by user and action, which overwrites the
\* user's earlier entry of the same kind
ActivityLog_update_or_create(entries) ==
    {e \in activity : \A n \in entries : n.user # e.user \/ n.action # e.action} \cup entries

\* ActivityLog.objects.create(...), once for each entry
ActivityLog_create(entries) == activity \cup entries

LogEntry(user, action, ref) ==
    [id |-> NewId("activity"), user |-> user.user_id, action |-> action, ref |-> ref]

\* a slip: qty declared as a CharField, so any text validates
ValidQty_text(qty) == TRUE

\* OrderItemsSeializer.is_valid: qty is an IntegerField
ValidQty(qty) == qty \in {"1", "2"}

\* super().save() and what follows it in the handler: the header is saved, then
\* the items, then the ActivityLog row, each on its own; an item that does not
\* validate ends the request, float(total) raises on a NULL total and item_list
\* is unbound without items
PurchaseOrders_insert(user, req, number) ==
    LET header == [id |-> NewId("order"), user |-> user.user_id, is_deleted |-> FALSE,
                   client |-> req.client, order_number |-> number,
                   order_type |-> req.order_type, total |-> req.total,
                   notes |-> "", items |-> req.items] IN
    IF IntegrityError(number)
    THEN /\ resp' = Response("order_add", 400, "IntegrityError", NoToken)
         /\ listing' = NoListing
         /\ UNCHANGED tableVars
    ELSE /\ NewId("order") <= MaxOrders
         /\ IF req.items # {} /\ ~ValidQty(req.qty)
            THEN /\ orders' = orders \cup {[header EXCEPT !.items = {}]}
                 /\ resp' = Response("order_add", 400, "items_serializer.errors", NoToken)
                 /\ nextId' = Bump("order")
                 /\ UNCHANGED activity
            ELSE IF req.total = Null
            THEN /\ orders' = orders \cup {header}
                 /\ resp' = Response("order_add", 400, "TypeError", NoToken)
                 /\ nextId' = Bump("order")
                 /\ UNCHANGED activity
            ELSE /\ orders' = orders \cup {header}
                 /\ activity' = ActivityLog_create(
                       {LogEntry(user, IF req.order_type = "purchase" THEN "purchase_order"
                                       ELSE "sales_order", NewId("order"))})
                 /\ nextId' = [nextId EXCEPT !["order"] = @ + 1, !["activity"] = @ + 1]
                 /\ resp' = IF req.items = {}
                            THEN Response("order_add", 400, "NameError", NoToken)
                            ELSE Response("order_add", 200,
                                          "Purchase Order Created Successfully", NoToken)
         /\ listing' = NoListing
         /\ UNCHANGED <<clients, categories, products, invoices, expenses>>

\* the answer of the handler to a payload it does not save, "" when it saves
OrderRefusal(user, req) ==
    IF req.client = 0 THEN "Client ID is required"
    ELSE IF is_required(req.order_type) THEN "Order type is required"
    ELSE IF req.order_type \notin OrderTypes THEN "Invalid order type"
    ELSE IF req.items # {} /\ is_required(req.qty) THEN "Quantity is required."
    ELSE IF ~ValidItems(req.items, user) THEN "Invalid Product ID."
    ELSE ""

CreatePurchaseOrderView_post(t, req) ==
    /\ has_permission(t)
    /\ LET user == request_user(t) IN
       IF OrderRefusal(user, req) # ""
       THEN /\ resp' = Response("order_add", 400, OrderRefusal(user, req), NoToken)
            /\ Untouched
       ELSE IF req.client \notin Ids(clients)
       THEN \* serializer.is_valid() is false and the handler returns nothing
            /\ resp' = Response("order_add", 500, "", NoToken)
            /\ Untouched
       ELSE /\ PurchaseOrders_insert(user, req, generated_number(user))
            /\ UNCHANGED userVars

\* two requests at once. PurchaseOrders.save up to super().save(): the worker
\* has validated the payload and read the latest order number
PurchaseOrders_save_read(w, t, req) ==
    /\ saving[w] = Idle
    /\ has_permission(t)
    /\ LET user == request_user(t) IN
       /\ OrderRefusal(user, req) = ""
       /\ req.client \in Ids(clients)
       /\ saving' = [saving EXCEPT ![w] = {[token |-> t, order |-> req,
                                            number |-> generated_number(user)]}]
    /\ UNCHANGED <<users, nextUserId, tokens, now, logins, stale, otps, companies, resp,
                   dataVars>>

\* a slip: the insert computes the number afresh, as if the read and the insert
\* were one step
PurchaseOrders_save_insert_fresh(w) ==
    /\ saving[w] # Idle
    /\ LET s == CHOOSE x \in saving[w] : TRUE IN
       /\ PurchaseOrders_insert(request_user(s.token), s.order,
                                generated_number(request_user(s.token)))
       /\ saving' = [saving EXCEPT ![w] = Idle]
    /\ UNCHANGED <<users, nextUserId, tokens, now, logins, stale, otps, companies>>

\* super().save() with the number read earlier, and the rest of the handler
PurchaseOrders_save_insert(w) ==
    /\ saving[w] # Idle
    /\ LET s == CHOOSE x \in saving[w] : TRUE IN
       /\ PurchaseOrders_insert(request_user(s.token), s.order, s.number)
       /\ saving' = [saving EXCEPT ![w] = Idle]
    /\ UNCHANGED <<users, nextUserId, tokens, now, logins, stale, otps, companies>>

\* PurchaseOrderListView.get with no order_type filter
PurchaseOrderListView_get(t) ==
    /\ has_permission(t)
    /\ LET user == request_user(t) IN
       /\ listing' = Listing("order_list", user.user_id,
                             Ids({o \in orders : o.user = user.user_id /\ ~o.is_deleted}), 0, <<>>)
       /\ resp' = Response("order_list", 200, "", NoToken)
       /\ UNCHANGED <<userVars, clients, categories, products, orders, invoices, expenses,
                      nextId, activity>>

\* a payload with notes and no items
PurchaseOrderDetailView_put(t, order_id, req) ==
    /\ has_permission(t)
    /\ LET user == request_user(t) IN
       IF Owned(orders, order_id, user) = {}
       THEN /\ resp' = Response("order_put", 404, "Purchase order not found.", NoToken)
            /\ Untouched
       ELSE LET purchase_order == FirstRow(Owned(orders, order_id, user)) IN
            /\ orders' = (orders \ {purchase_order})
                            \cup {[purchase_order EXCEPT !.notes = req.notes]}
            /\ resp' = Response("order_put", 200, "Purchase Order updated successfully", NoToken)
            /\ listing' = NoListing
            /\ UNCHANGED <<userVars, clients, categories, products, invoices, expenses,
                           nextId, activity>>

\* the OrderItems rows go with the header
PurchaseOrderDetailView_delete(t, order_id) ==
    /\ has_permission(t)
    /\ LET user == request_user(t) IN
       IF Owned(orders, order_id, user) = {}
       THEN /\ resp' = Response("order_delete", 404, "Purchase order not found", NoToken)
            /\ Untouched
       ELSE /\ orders' = orders \ Owned(orders, order_id, user)
            /\ resp' = Response("order_delete", 200, "Purchase Order Deleted", NoToken)
            /\ listing' = NoListing
            /\ UNCHANGED <<userVars, clients, categories, products, invoices, expenses,
                           nextId, activity>>

(***************************************************************************)
(* Invoices: AddInvoiceView, InvoiceListView, InvoiceOrderDetailView,      *)
(* UpdateInvoiceStatus                                                     *)
(***************************************************************************)
\* a payload item: [product, qty, price]
ItemProducts(items) == {it.product : it \in items}

AddInvoiceView_post(t, req) ==
    /\ has_permission(t)
    /\ LET user == request_user(t)
           header == [id |-> NewId("invoice"), user |-> user.user_id, is_deleted |-> FALSE,
                      client |-> req.client, invoice_type |-> req.invoice_type,
                      status |-> "Pending", issue_date |-> req.issue_date,
                      payment_due |-> req.payment_due, total |-> req.total,
                      notes |-> "", items |-> req.items] IN
       IF req.client = 0
       THEN /\ resp' = Response("invoice_add", 400, "Client ID is required", NoToken)
            /\ Untouched
       ELSE IF is_required(req.invoice_type)
       THEN /\ resp' = Response("invoice_add", 400, "Invoice type is required", NoToken)
            /\ Untouched
       ELSE IF req.invoice_type \notin OrderTypes
       THEN /\ resp' = Response("invoice_add", 400, "Invalid invoice type", NoToken)
            /\ Untouched
       ELSE IF ~ValidItems(ItemProducts(req.items), user)
       THEN /\ resp' = Response("invoice_add", 400, "Invalid Product ID.", NoToken)
            /\ Untouched
       ELSE IF req.client \notin Ids(clients)
       THEN /\ resp' = Response("invoice_add", 500, "", NoToken)
            /\ Untouched
       ELSE /\ NewId("invoice") <= MaxRows
            /\ invoices' = invoices \cup {header}
            /\ IF req.total = Null
               THEN /\ resp' = Response("invoice_add", 400, "TypeError", NoToken)
                    /\ nextId' = Bump("invoice")
                    /\ UNCHANGED activity
               ELSE /\ activity' = ActivityLog_create(
                          {LogEntry(user, IF req.invoice_type = "purchase" THEN "purchase_order"
                                          ELSE "sales_order", NewId("invoice"))})
                    /\ nextId' = [nextId EXCEPT !["invoice"] = @ + 1, !["activity"] = @ + 1]
                    /\ resp' = IF req.items = {}
                               THEN Response("invoice_add", 400, "NameError", NoToken)
                               ELSE Response("invoice_add", 200,
                                             "Purchase Order Created Successfully", NoToken)
            /\ listing' = NoListing
            /\ UNCHANGED <<userVars, clients, categories, products, orders, expenses>>

\* every invoice that is not deleted, of whichever user; rows are only
\* produced for the two known types
InvoiceListView_get(t, invoice_type) ==
    /\ has_permission(t)
    /\ LET user == request_user(t) IN
       IF invoice_type # "" /\ invoice_type \notin OrderTypes
       THEN \* get_queryset returns a Response, which the paginator cannot slice
            /\ resp' = Response("invoice_list", 400, "TypeError", NoToken)
            /\ Untouched
       ELSE /\ listing' = Listing("invoice_list", user.user_id,
                                  Ids({i \in invoices : /\ ~i.is_deleted
                                                        /\ invoice_type # ""
                                                        /\ i.invoice_type = invoice_type}),
                                  0, <<>>)
            /\ resp' = Response("invoice_list", 200, "", NoToken)
            /\ UNCHANGED <<userVars, clients, categories, products, orders, invoices, expenses,
                           nextId, activity>>

\* a payload with notes and no items
InvoiceOrderDetailView_put(t, invoice_id, req) ==
    /\ has_permission(t)
    /\ LET user == request_user(t) IN
       IF Owned(invoices, invoice_id, user) = {}
       THEN /\ resp' = Response("invoice_put", 404, "Invoice not found.", NoToken)
            /\ Untouched
       ELSE LET invoice == FirstRow(Owned(invoices, invoice_id, user)) IN
            /\ invoices' = (invoices \ {invoice}) \cup {[invoice EXCEPT !.notes = req.notes]}
            /\ resp' = Response("invoice_put", 200, "Invoice updated successfully", NoToken)
            /\ listing' = NoListing
            /\ UNCHANGED <<userVars, clients, categories, products, orders, expenses,
                           nextId, activity>>

InvoiceOrderDetailView_delete(t, invoice_id) ==
    /\ has_permission(t)
    /\ LET user == request_user(t) IN
       IF Owned(invoices, invoice_id, user) = {}
       THEN /\ resp' = Response("invoice_delete", 404, "Inivoice not found", NoToken)
            /\ Untouched
       ELSE /\ invoices' = invoices \ Owned(invoices, invoice_id, user)
            /\ resp' = Response("invoice_delete", 200, "Invoice Deleted", NoToken)
            /\ listing' = NoListing
            /\ UNCHANGED <<userVars, clients, categories, products, orders, expenses,
                           nextId, activity>>

UpdateInvoiceStatus_get(t, invoice_id, status_value) ==
    /\ has_permission(t)
    /\ LET user == request_user(t) IN
       IF is_required(status_value)
       THEN /\ resp' = Response("invoice_status", 400, "Status is required", NoToken)
            /\ Untouched
       ELSE IF Owned(invoices, invoice_id, user) = {}
       THEN /\ resp' = Response("invoice_status", 404, "Invoice not found", NoToken)
            /\ Untouched
       ELSE LET invoice == FirstRow(Owned(invoices, invoice_id, user)) IN
            /\ invoices' = (invoices \ {invoice}) \cup {[invoice EXCEPT !.status = status_value]}
            /\ resp' = Response("invoice_status", 200, "Invoice status updated successfully", NoToken)
            /\ listing' = NoListing
            /\ UNCHANGED <<userVars, clients, categories, products, orders, expenses,
                           nextId, activity>>

(***************************************************************************)
(* HomePageView.get: the purchase invoices that are past due are logged    *)
(* and marked Overdue one by one                                           *)
(***************************************************************************)
\* Invoice.objects.filter(user, invoice_type="purchase", status="Pending",
\*     is_deleted=False, payment_due__isnull=False, payment_due__lt=today)
overdue_invoices(user, today) ==
    {i \in invoices : /\ i.user = user.user_id
                      /\ i.invoice_type = "purchase"
                      /\ i.status = "Pending"
                      /\ ~i.is_deleted
                      /\ i.payment_due # Null /\ Val(i.payment_due) < today}

\* float(invoice.total) raises on an invoice without a total: the loop stops
\* there, after the invoices that came before it in the order of the query
\* (which the code leaves to the database) were logged and saved
HomePageView_get(t, today) ==
    /\ has_permission(t)
    /\ LET user == request_user(t)
           overdue == overdue_invoices(user, today)
           priced == {i \in overdue : i.total # Null} IN
       \E done \in SUBSET priced :
          /\ overdue = priced => done = priced
          /\ nextId["activity"] + Cardinality(done) <= MaxActivity + 1
          /\ invoices' = {IF i \in done THEN [i EXCEPT !.status = "Overdue"] ELSE i :
                            i \in invoices}
          /\ activity' = ActivityLog_create(
                {[id |-> NewId("activity") + Cardinality({j \in done : j.id < i.id}),
                  user |-> user.user_id, action |-> "invoice_overdue", ref |-> i.id] :
                    i \in done})
          /\ nextId' = [nextId EXCEPT !["activity"] = @ + Cardinality(done)]
          /\ resp' = IF overdue = priced
                     THEN Response("home_page", 200, "Home page totals fetched", NoToken)
                     ELSE Response("home_page", 400, "TypeError", NoToken)
          /\ listing' = NoListing
          /\ UNCHANGED <<userVars, clients, categories, products, orders, expenses>>

(***************************************************************************)
(* Expenses: AddUserExpense, UserExpenseList                               *)
(***************************************************************************)
AddUserExpense_post(t, req) ==
    /\ has_permission(t)
    /\ LET user == request_user(t) IN
       IF is_required(req.expense_name)
       THEN /\ resp' = Response("expense_add", 400, "Expense name is required.", NoToken)
            /\ Untouched
       ELSE IF req.amount = Null
       THEN /\ resp' = Response("expense_add", 400, "Amount is required", NoToken)
            /\ Untouched
       ELSE IF is_required(req.category)
       THEN /\ resp' = Response("expense_add", 400, "Category is required", NoToken)
            /\ Untouched
       ELSE IF is_required(req.expense_date)
       THEN /\ resp' = Response("expense_add", 400, "Expense Date is required", NoToken)
            /\ Untouched
       ELSE /\ NewId("expense") <= MaxRows
            /\ expenses' = expenses \cup
                  {[id |-> NewId("expense"), user |-> user.user_id, is_deleted |-> FALSE,
                    category |-> req.category, amount |-> Val(req.amount)]}
            /\ nextId' = Bump("expense")
            /\ resp' = Response("expense_add", 200, "Expense Added", NoToken)
            /\ listing' = NoListing
            /\ UNCHANGED <<userVars, clients, categories, products, orders, invoices,
                           activity>>

\* UserExpense.objects.filter(user=self.request.user)
UserExpenseList_get(t) ==
    /\ has_permission(t)
    /\ LET user == request_user(t) IN
       /\ listing' = Listing("expense_list", user.user_id,
                             Ids({e \in expenses : e.user = user.user_id}), 0, <<>>)
       /\ resp' = Response("expense_list", 200, "", NoToken)
       /\ UNCHANGED <<userVars, clients, categories, products, orders, invoices, expenses,
                      nextId, activity>>

(***************************************************************************)
(* admin_panel UserListView.get with no search or active filter            *)
(***************************************************************************)
UserListView_get(t) ==
    /\ has_permission(t)
    /\ LET user == request_user(t) IN
       IF role_name(user.user_role) # "admin"
       THEN /\ resp' = Response("user_list", 401, "Only Admins Are Allowed.", NoToken)
            /\ Untouched
       ELSE /\ listing' = Listing("user_list", user.user_id,
                                  {u.user_id : u \in {v \in users : ~v.is_deleted /\ ~v.is_admin}},
                                  0, <<>>)
            /\ resp' = Response("user_list", 200, "", NoToken)
            /\ UNCHANGED <<userVars, clients, categories, products, orders, invoices, expenses,
                           nextId, activity>>

(***************************************************************************)
(* Soft delete: is_deleted set on a row of a business table                *)
(***************************************************************************)
Flagged(rows, id) == {IF r.id = id THEN [r EXCEPT !.is_deleted = TRUE] ELSE r : r \in rows}

Live(rows, id) == \E r \in rows : r.id = id /\ ~r.is_deleted

SoftDelete(table, id) ==
    /\ CASE table = "client" -> /\ Live(clients, id)
                                /\ clients' = Flagged(clients, id)
                                /\ UNCHANGED <<categories, products, orders, invoices, expenses>>
         [] table = "category" -> /\ Live(categories, id)
                                  /\ categories' = Flagged(categories, id)
                                  /\ UNCHANGED <<clients, products, orders, invoices, expenses>>
         [] table = "product" -> /\ Live(products, id)
                                 /\ products' = Flagged(products, id)
                                 /\ UNCHANGED <<clients, categories, orders, invoices, expenses>>
         [] table = "order" -> /\ Live(orders, id)
                               /\ orders' = Flagged(orders, id)
                               /\ UNCHANGED <<clients, categories, products, invoices, expenses>>
         [] table = "invoice" -> /\ Live(invoices, id)
                                 /\ invoices' = Flagged(invoices, id)
                                 /\ UNCHANGED <<clients, categories, products, orders, expenses>>
    /\ resp' = Response("soft_delete", 0, "", NoToken)
    /\ listing' = NoListing
    /\ UNCHANGED <<userVars, nextId, activity>>

\* the same on a UserExpense row
SoftDeleteExpense(id) ==
    /\ Live(expenses, id)
    /\ expenses' = Flagged(expenses, id)
    /\ resp' = Response("soft_delete", 0, "", NoToken)
    /\ listing' = NoListing
    /\ UNCHANGED <<userVars, clients, categories, products, orders, invoices, nextId,
                   activity>>

(***************************************************************************)
(* Report arithmetic                                                       *)
(***************************************************************************)
\* Sum('field') over rows, given the value of each row
Total(value, rows) == SumOver(value, rows)

\* round(x, 2) and f"{x:.2f}" on num/den (den > 0), in hundredths: half to even
RoundHalfEven(num, den) ==
    LET q == num \div den
        r == num - q * den IN
    IF 2 * r < den THEN q
    ELSE IF 2 * r > den THEN q + 1
    ELSE IF q % 2 = 0 THEN q ELSE q + 1

\* (amount / total) * 100 rounded to two places, in hundredths of a percent
percentage(amount, total) == RoundHalfEven(amount * 10000, total)

\* f"{v:.2f}" of an amount held in cents: sign, units and two decimals
fmt2(v) == LET a == IF v < 0 THEN 0 - v ELSE v IN
           [neg |-> v < 0, units |-> a \div 100, cents |-> a % 100]

\* the amount a two-decimal string denotes, in cents
Cents(s) == IF s.neg THEN 0 - (s.units * 100 + s.cents) ELSE s.units * 100 + s.cents

expense_categories == <<"Food & Dining", "Transport", "Shopping", "Bills", "Entertainment">>

\* str.lower() on the expense categories of the model
casefold(name) == CASE name = "Food & Dining" -> "food & dining"
                    [] name = "Transport" -> "transport"
                    [] name = "Shopping" -> "shopping"
                    [] name = "Bills" -> "bills"
                    [] name = "Entertainment" -> "entertainment"
                    [] OTHER -> name

Amounts(rows) == [e \in rows |-> e.amount]

(***************************************************************************)
(* ExpenseReportPage.get with no search or time filter                     *)
(***************************************************************************)
\* values('category').annotate(Sum) on a queryset ordered by -created_at groups
\* by category and created_at; the dict built from the groups keeps, for each
\* category, the group read last: the oldest row of the category
totals_map(rows, category) ==
    LET same == {e \in rows : e.category = category} IN
    IF same = {} THEN 0 ELSE FirstRow(same).amount

RECURSIVE main_categories_spent(_, _)
main_categories_spent(rows, k) ==
    IF k = 0 THEN 0
    ELSE main_categories_spent(rows, k - 1) + totals_map(rows, expense_categories[k])

category_percentages(rows) ==
    LET total_expense_amount == Total(Amounts(rows), rows)
        main == [k \in 1..Len(expense_categories) |->
                    [category |-> expense_categories[k],
                     percentage |-> percentage(totals_map(rows, expense_categories[k]),
                                               total_expense_amount)]]
        other_spent == total_expense_amount
                          - main_categories_spent(rows, Len(expense_categories)) IN
    IF total_expense_amount > 0
    THEN IF other_spent > 0
         THEN Append(main, [category |-> "Other",
                            percentage |-> percentage(other_spent, total_expense_amount)])
         ELSE main
    ELSE <<>>

\* total_spent is UserExpense.objects.aggregate(Sum('amount')): every row of the table
ExpenseReportPage_get(t) ==
    /\ has_permission(t)
    /\ LET user == request_user(t)
           expense_pr == {e \in expenses : e.user = user.user_id} IN
       /\ listing' = Listing("expense_report", user.user_id, {},
                             Total(Amounts(expenses), expenses), category_percentages(expense_pr))
       /\ resp' = Response("expense_report", 200, "Recent expenses fetched successfully.", NoToken)
       /\ UNCHANGED <<userVars, clients, categories, products, orders, invoices, expenses,
                      nextId, activity>>

(***************************************************************************)
(* ExpenseByCategoryReportView.get with no start_date or end_date          *)
(***************************************************************************)
\* qs.filter(category__iexact=cat).aggregate(Sum('amount'))
cat_amounts(rows, cat) ==
    LET same == {e \in rows : casefold(e.category) = casefold(cat)} IN
    Total(Amounts(same), same)

RECURSIVE total_expense(_, _)
total_expense(rows, k) ==
    IF k = 0 THEN 0 ELSE total_expense(rows, k - 1) + cat_amounts(rows, expense_categories[k])

breakdown_with_percentage(rows) ==
    LET total == total_expense(rows, Len(expense_categories)) IN
    [k \in 1..Len(expense_categories) |->
        [category |-> expense_categories[k],
         percentage |-> IF total > 0
                        THEN percentage(cat_amounts(rows, expense_categories[k]), total)
                        ELSE 0]]

ExpenseByCategoryReportView_get(t) ==
    /\ has_permission(t)
    /\ LET user == request_user(t)
           qs == {e \in expenses : e.user = user.user_id} IN
       /\ listing' = Listing("expense_by_category", user.user_id, {},
                             total_expense(qs, Len(expense_categories)),
                             breakdown_with_percentage(qs))
       /\ resp' = Response("expense_by_category", 200, "Expense by category fetched.", NoToken)
       /\ UNCHANGED <<userVars, clients, categories, products, orders, invoices, expenses,
                      nextId, activity>>

(***************************************************************************)
(* SalesSummaryView.get with no time_frame                                 *)
(***************************************************************************)
sales_buckets == <<"Electronics", "Clothing", "Home & Garden", "Book", "Other">>

\* the substring tests on the lower-cased category name, for the names of the model
bucket_of(cname) == CASE cname = "phone" -> "Electronics"
                      [] cname = "fashion" -> "Clothing"
                      [] cname = "garden" -> "Home & Garden"
                      [] cname = "books" -> "Book"
                      [] OTHER -> "Other"

\* product__category__category_name of a line item ("" when there is none)
category_name_of(product_id) ==
    LET cs == {c \in categories : \E p \in products : p.id = product_id /\ p.category = c.id} IN
    IF cs = {} THEN "" ELSE FirstRow(cs).category_name

\* InvoiceItems of the user's sales invoices whose product is not deleted
sales_data(user) ==
    UNION {{[invoice |-> i.id, item |-> it] :
               it \in {x \in i.items : \E p \in products : p.id = x.product /\ ~p.is_deleted}} :
           i \in {j \in invoices : /\ j.user = user.user_id
                                   /\ j.invoice_type = "sales"
                                   /\ ~j.is_deleted}}

\* Sum(F('qty') * F('price')) over the items that fall in a bucket
bucket_total(rows, bucket) ==
    LET same == {s \in rows : bucket_of(lower(category_name_of(s.item.product))) = bucket} IN
    Total([s \in same |-> s.item.qty * s.item.price], same)

RECURSIVE total_in_buckets(_, _)
total_in_buckets(rows, k) ==
    IF k = 0 THEN 0 ELSE total_in_buckets(rows, k - 1) + bucket_total(rows, sales_buckets[k])

sales_by_category(rows) ==
    LET total == total_in_buckets(rows, Len(sales_buckets)) IN
    [k \in 1..Len(sales_buckets) |->
        [category |-> sales_buckets[k],
         percentage |-> IF total > 0
                        THEN percentage(bucket_total(rows, sales_buckets[k]), total)
                        ELSE 0]]

SalesSummaryView_get(t) ==
    /\ has_permission(t)
    /\ LET user == request_user(t)
           rows == sales_data(user) IN
       /\ listing' = Listing("sales_summary", user.user_id, {},
                             total_in_buckets(rows, Len(sales_buckets)), sales_by_category(rows))
       /\ resp' = Response("sales_summary", 200, "", NoToken)
       /\ UNCHANGED <<userVars, clients, categories, products, orders, invoices, expenses,
                      nextId, activity>>

(***************************************************************************)
(* OutstandingReceivables.get / OutstandingPayables.get                    *)
(***************************************************************************)
aging_ranges == <<"Not due", "0-30", "31-60", "61-90", "90+">>

\* a slip: days = 0 tested with < instead of <=
bucket_strict(inv, as_of) ==
    IF inv.payment_due = Null THEN "Not due"
    ELSE LET days == as_of - Val(inv.payment_due) IN
         IF days < 0 THEN "Not due"
         ELSE IF 1 <= days /\ days <= 30 THEN "0-30"
         ELSE IF 31 <= days /\ days <= 60 THEN "31-60"
         ELSE IF 61 <= days /\ days <= 90 THEN "61-90"
         ELSE IF days > 90 THEN "90+"
         ELSE "none"

\* the bucket the loop adds an invoice to
bucket(inv, as_of) ==
    IF inv.payment_due = Null THEN "Not due"
    ELSE LET days == as_of - Val(inv.payment_due) IN
         IF days <= 0 THEN "Not due"
         ELSE IF 1 <= days /\ days <= 30 THEN "0-30"
         ELSE IF 31 <= days /\ days <= 60 THEN "31-60"
         ELSE IF 61 <= days /\ days <= 90 THEN "61-90"
         ELSE "90+"

\* status__iexact="Paid" on the statuses of the model
is_paid(status) == status \in {"Paid", "paid"}

\* inv.total or Decimal('0.00')
amt(inv) == IF inv.total = Null THEN 0 ELSE Val(inv.total)

\* invoices of the user and type issued on or before as_of and not paid
outstanding_qs(user, invoice_type, as_of) ==
    {i \in invoices : /\ i.user = user.user_id
                      /\ i.invoice_type = invoice_type
                      /\ ~i.is_deleted
                      /\ i.issue_date # Null /\ Val(i.issue_date) <= as_of
                      /\ ~is_paid(i.status)}

\* the status filter of OutstandingPayables, due_soon_days left at 7
status_filtered(rows, status_filter, as_of) ==
    {i \in rows :
        CASE status_filter = "overdue" -> i.payment_due # Null /\ Val(i.payment_due) < as_of
          [] status_filter = "due_soon" -> /\ i.payment_due # Null
                                           /\ Val(i.payment_due) >= as_of
                                           /\ Val(i.payment_due) <= as_of + 7
          [] status_filter = "upcoming" -> i.payment_due # Null /\ Val(i.payment_due) > as_of + 7
          [] OTHER -> TRUE}

\* Sum('total'): NULL totals are left out
total_outstanding(rows) ==
    LET priced == {i \in rows : i.total # Null} IN
    Total([i \in priced |-> Val(i.total)], priced)

\* the five bucket amounts, each formatted to two decimals
aging(rows, as_of) ==
    [k \in 1..Len(aging_ranges) |->
        LET same == {i \in rows : bucket(i, as_of) = aging_ranges[k]} IN
        [range |-> aging_ranges[k], amount |-> fmt2(Total([i \in same |-> amt(i)], same))]]

OutstandingReceivables_get(t, as_of) ==
    /\ has_permission(t)
    /\ LET user == request_user(t)
           rows == outstanding_qs(user, "sales", as_of) IN
       /\ listing' = Listing("receivables", user.user_id, Ids(rows),
                             fmt2(total_outstanding(rows)), aging(rows, as_of))
       /\ resp' = Response("receivables", 200, "Outstanding receivables fetched.", NoToken)
       /\ UNCHANGED <<userVars, clients, categories, products, orders, invoices, expenses,
                      nextId, activity>>

OutstandingPayables_get(t, as_of, status_filter) ==
    /\ has_permission(t)
    /\ LET user == request_user(t)
           rows == status_filtered(outstanding_qs(user, "purchase", as_of), status_filter, as_of) IN
       /\ listing' = Listing("payables", user.user_id, Ids(rows),
                             fmt2(total_outstanding(rows)), aging(rows, as_of))
       /\ resp' = Response("payables", 200, "Outstanding payables fetched.", NoToken)
       /\ UNCHANGED <<userVars, clients, categories, products, orders, invoices, expenses,
                      nextId, activity>>

(***************************************************************************)
(* SendOTPView.post / VerifyOTPView.post                                   *)
(***************************************************************************)
\* randint(100000, 999999) as a string: two of the codes
Codes == {"100000", "999999"}

\* Otp.save on a new row: a random code and an expiry five minutes from now
NewOtp(email, otp_type, code) ==
    [id |-> NewId("otp"), user |-> email, otp |-> code, otp_type |-> otp_type,
     expiry_time |-> now + OtpLife]

\* a slip in the comparison: an OTP is refused only from the tick after its expiry has passed
is_expired_late(otp) == otp.expiry_time + 1 < now

\* otp.expiry_time < timezone.now()
is_expired(otp) == otp.expiry_time < now

\* a slip in the filter: only the expired rows of the pair are removed
StaleOtps_expired(email, otp_type) ==
    {o \in otps : o.user = email /\ o.otp_type = otp_type /\ is_expired(o)}

\* Otp.objects.filter(user=email, otp_type=otp_type), the rows SendOTPView deletes
StaleOtps(email, otp_type) == {o \in otps : o.user = email /\ o.otp_type = otp_type}

\* User.objects.filter(email=email, is_deleted=False, is_active=False)
InactiveWithEmail(email) == {u \in users : u.email = email /\ ~u.is_deleted /\ ~u.is_active}

SendOTPView_post(req, code) ==
    LET refuse(message) ==
            /\ resp' = Response("send_otp", 400, message, NoToken)
            /\ UNCHANGED <<userVars, dataVars>> IN
    IF is_required(req.email) THEN refuse("Email is required.")
    ELSE IF is_required(req.otp_type) THEN refuse("OTP Type is required.")
    ELSE IF req.otp_type = "reset_password" /\ InactiveWithEmail(req.email) = {}
         THEN refuse("User With This Email Not Exist.")
    ELSE IF /\ req.otp_type = "verify_email"
            /\ InactiveWithEmail(req.email) # {}
            /\ First(InactiveWithEmail(req.email)).is_email_verified
         THEN refuse("Email is already verified.")
    ELSE /\ otps' = (otps \ StaleOtps(req.email, req.otp_type))
                       \cup {NewOtp(req.email, req.otp_type, code)}
         /\ nextId' = Bump("otp")
         /\ resp' = Response("send_otp", 200, "Please Verify Below OTP code.", NoToken)
         /\ UNCHANGED <<users, nextUserId, tokens, now, logins, stale, companies, saving, clients,
                        categories, products, orders, invoices, expenses, activity, listing>>

\* Otp.objects.filter(user=email, otp_type=otp_type, otp=otp_code)
MatchingOtps(req) ==
    {o \in otps : o.user = req.email /\ o.otp_type = req.otp_type /\ o.otp = req.otp_code}

\* a slip: the accepted row is soft-deleted, which the filter does not look at
otp_delete_soft(otp) == otps

\* otp.delete()
otp_delete(otp) == otps \ {otp}

VerifyOTPView_post(req) ==
    LET refuse(message) ==
            /\ resp' = Response("verify_otp", 400, message, NoToken)
            /\ UNCHANGED <<userVars, dataVars>>
        answer(status, message) ==
            /\ resp' = Response("verify_otp", status, message, NoToken)
            /\ UNCHANGED <<nextUserId, tokens, now, logins, stale, companies, saving, dataVars>> IN
    IF is_required(req.email) THEN refuse("Email is required.")
    ELSE IF is_required(req.otp_code) THEN refuse("OTP Code is required.")
    ELSE IF is_required(req.otp_type) THEN refuse("OTP Type is required.")
    ELSE IF MatchingOtps(req) = {} THEN refuse("Invalid OTP.")
    ELSE LET otp == FirstRow(MatchingOtps(req)) IN
         IF is_expired(otp)
         THEN /\ otps' = otp_delete(otp)
              /\ users' = users
              /\ answer(400, "OTP has expired. Please request new otp")
         ELSE IF req.otp_type = "reset_password"
         THEN /\ otps' = otp_delete(otp)
              /\ users' = users
              /\ answer(200, "OTP verified successfully. You can now reset your password.")
         ELSE IF req.otp_type = "verify_email"
         THEN /\ otps' = otp_delete(otp)
              /\ IF ActiveWithEmail(req.email) # {}
                 THEN LET user == First(ActiveWithEmail(req.email)) IN
                      /\ users' = Save(user, [user EXCEPT !.is_email_verified = TRUE])
                      /\ answer(200, "Email verified successfully.")
                 ELSE /\ users' = users
                      /\ answer(400, "User not found.")
         ELSE refuse("Invalid OTP Type.")

(***************************************************************************)
(* UserCompany.post / put / delete                                         *)
(***************************************************************************)
\* a slip in the filter: is_deleted=True instead of is_deleted=False
CompanyOf_deleted(user) == {c \in companies : c.user = user.user_id /\ c.is_deleted}

\* UserCompany.objects.filter(user=user, is_deleted=False)
CompanyOf(user) == {c \in companies : c.user = user.user_id /\ ~c.is_deleted}

\* UserCompanySerializer.is_valid: the company email, when given, is an address
CompanyEmails == {"", "c@x.io"}

UserCompany_post(t, req) ==
    /\ has_permission(t)
    /\ LET user == request_user(t)
           refuse(message) ==
               /\ resp' = Response("company_add", 400, message, NoToken)
               /\ UNCHANGED <<userVars, dataVars>> IN
       IF is_required(req.company_name) THEN refuse("Company Name is required.")
       ELSE IF CompanyOf(user) # {}
            THEN refuse("User already has a company associated with it.")
       ELSE IF req.company_email \notin CompanyEmails THEN refuse("serializer.errors")
       ELSE /\ companies' = companies \cup
                   {[id |-> NewId("company"), user |-> user.user_id, is_deleted |-> FALSE,
                     company_name |-> req.company_name]}
            /\ nextId' = Bump("company")
            /\ resp' = Response("company_add", 201, "Company added successfully.", NoToken)
            /\ UNCHANGED <<users, nextUserId, tokens, now, logins, stale, otps, saving, clients,
                           categories, products, orders, invoices, expenses, activity, listing>>

UserCompany_put(t, req) ==
    /\ has_permission(t)
    /\ LET user == request_user(t) IN
       IF CompanyOf(user) = {}
       THEN /\ resp' = Response("company_update", 404,
                                "User does not have a company associated with it.", NoToken)
            /\ UNCHANGED <<userVars, dataVars>>
       ELSE IF req.company_email \notin CompanyEmails
       THEN /\ resp' = Response("company_update", 400, "serializer.errors", NoToken)
            /\ UNCHANGED <<userVars, dataVars>>
       ELSE LET company_obj == FirstRow(CompanyOf(user)) IN
            /\ companies' = (companies \ {company_obj}) \cup
                   {IF req.company_name = "" THEN company_obj
                    ELSE [company_obj EXCEPT !.company_name = req.company_name]}
            /\ resp' = Response("company_update", 200, "Company updated successfully.", NoToken)
            /\ UNCHANGED <<users, nextUserId, tokens, now, logins, stale, otps, saving, dataVars>>

\* company_obj.delete(): the row is removed
UserCompany_delete(t) ==
    /\ has_permission(t)
    /\ LET user == request_user(t) IN
       IF CompanyOf(user) = {}
       THEN /\ resp' = Response("company_delete", 404,
                                "User does not have a company associated with it.", NoToken)
            /\ UNCHANGED <<userVars, dataVars>>
       ELSE /\ companies' = companies \ {FirstRow(CompanyOf(user))}
            /\ resp' = Response("company_delete", 200, "Company deleted successfully.", NoToken)
            /\ UNCHANGED <<users, nextUserId, tokens, now, logins, stale, otps, saving, dataVars>>

(***************************************************************************)
(* SalesByClientReportView.get / TaxOnSalesReportView.get: the month-wise  *)
(* chart. A date string is the sequence <<year, month, day>> of its fields *)
(***************************************************************************)
DaysBefore == <<0, 31, 59, 90, 120, 151, 181, 212, 243, 273, 304, 334>>
DaysIn == <<31, 28, 31, 30, 31, 30, 31, 31, 30, 31, 30, 31>>

\* strftime('%b')
Abbr == <<"Jan", "Feb", "Mar", "Apr", "May", "Jun", "Jul", "Aug", "Sep", "Oct", "Nov", "Dec">>

\* datetime.fromisoformat(s).date(); ValueError on a date that does not exist
ValidDate(s) == s[2] \in 1..12 /\ s[3] \in 1..DaysIn[s[2]]

_parse_date(s) == [year |-> s[1], month |-> s[2], day |-> s[3]]

\* the day number the model's tables hold for a date (years that are not leap)
DayNumber(date) == (date.year - BaseYear) * 365 + DaysBefore[date.month] + date.day - 1

\* date <= date
DateLE(a, b) ==
    \/ a.year < b.year
    \/ a.year = b.year /\ a.month < b.month
    \/ a.year = b.year /\ a.month = b.month /\ a.day <= b.day

\* datetime(d.year, d.month, 1).date() and d.replace(day=1)
FirstOfMonth(date) == [date EXCEPT !.day = 1]

\* a slip: the month is taken modulo 12 without the shift by one
add_months_unshifted(src_date, months) ==
    [year |-> src_date.year + ((src_date.month + months) \div 12),
     month |-> ((src_date.month + months) % 12) + 1, day |-> 1]

\* add_months of SalesByClientReportView.get
add_months(src_date, months) ==
    [year |-> src_date.year + ((src_date.month - 1 + months) \div 12),
     month |-> ((src_date.month - 1 + months) % 12) + 1, day |-> 1]

\* Sum('total') of the Paid sales invoices of a month inside [low, high]
MonthRevenue(rows, month_start, low, high) ==
    LET next == add_months(month_start, 1)
        hit == {i \in rows : /\ i.status = "Paid" /\ i.issue_date # Null /\ i.total # Null
                             /\ Val(i.issue_date) >= DayNumber(month_start)
                             /\ Val(i.issue_date) < DayNumber(next)
                             /\ Val(i.issue_date) >= low /\ Val(i.issue_date) <= high}
        amount == [id \in Ids(hit) |-> Val(FirstRow({i \in hit : i.id = id}).total)] IN
    SumOver(amount, Ids(hit))

\* while cur <= end_month: ... cur = add_months(cur, 1)
RECURSIVE SalesMonths(_, _)
SalesMonths(cur, end_month) ==
    IF DateLE(cur, end_month) THEN <<cur>> \o SalesMonths(add_months(cur, 1), end_month)
    ELSE <<>>

\* while cur <= end_dt: ... cur = cur.replace(month=cur.month + 1), or January
\* of the next year after December
RECURSIVE TaxMonths(_, _)
TaxMonths(cur, end_dt) ==
    IF DateLE(cur, end_dt)
    THEN <<cur>> \o TaxMonths(IF cur.month = 12 THEN [cur EXCEPT !.year = @ + 1, !.month = 1]
                              ELSE [cur EXCEPT !.month = @ + 1], end_dt)
    ELSE <<>>

\* issue_date__gte=start_date, issue_date__lte=end_date on the given rows
InRange(rows, start_date, end_date) ==
    {i \in rows :
        /\ start_date # Null =>
              i.issue_date # Null /\ Val(i.issue_date) >= DayNumber(_parse_date(Val(start_date)))
        /\ end_date # Null =>
              i.issue_date # Null /\ Val(i.issue_date) <= DayNumber(_parse_date(Val(end_date)))}

SalesByClientReportView_get(t, start_date, end_date, today) ==
    /\ has_permission(t)
    /\ LET user == request_user(t) IN
       IF \/ start_date # Null /\ ~ValidDate(Val(start_date))
          \/ end_date # Null /\ ~ValidDate(Val(end_date))
       THEN /\ resp' = Response("sales_by_client", 400, "ValidationError", NoToken)
            /\ Untouched
       ELSE LET rows == InRange({i \in invoices : /\ i.user = user.user_id
                                                  /\ i.invoice_type = "sales"
                                                  /\ ~i.is_deleted}, start_date, end_date)
                end_dt == IF end_date = Null THEN today ELSE _parse_date(Val(end_date))
                end_month == FirstOfMonth(end_dt)
                start_month == IF start_date # Null
                               THEN FirstOfMonth(_parse_date(Val(start_date)))
                               ELSE add_months(end_month, -11)
                months == SalesMonths(start_month, end_month)
                paid == {i \in rows : i.status = "Paid" /\ i.total # Null}
                totals == [id \in Ids(paid) |-> Val(FirstRow({i \in paid : i.id = id}).total)] IN
            /\ listing' = Listing("sales_by_client", user.user_id, {},
                                  SumOver(totals, Ids(paid)),
                                  [k \in 1..Len(months) |->
                                      [label |-> Abbr[months[k].month],
                                       amount |-> MonthRevenue(rows, months[k],
                                                               DayNumber(start_month),
                                                               DayNumber(end_dt))]])
            /\ resp' = Response("sales_by_client", 200,
                                "Sales by client report fetched successfully.", NoToken)
            /\ UNCHANGED <<userVars, tableVars>>

\* the invoices of the model carry no tax, so every month's amount is 0.00
TaxOnSalesReportView_get(t, start_date, end_date, today) ==
    /\ has_permission(t)
    /\ LET user == request_user(t) IN
       IF \/ start_date # Null /\ ~ValidDate(Val(start_date))
          \/ end_date # Null /\ ~ValidDate(Val(end_date))
       THEN /\ resp' = Response("tax_on_sales", 400, "ValidationError", NoToken)
            /\ Untouched
       ELSE LET both == start_date # Null /\ end_date # Null
                start_dt == IF both THEN _parse_date(Val(start_date))
                            ELSE [today EXCEPT !.month = 1, !.day = 1]
                end_dt == IF both THEN _parse_date(Val(end_date))
                          ELSE [today EXCEPT !.month = 12, !.day = 31]
                months == TaxMonths(FirstOfMonth(start_dt), end_dt) IN
            /\ listing' = Listing("tax_on_sales", user.user_id, {}, 0,
                                  [k \in 1..Len(months) |->
                                      [label |-> Abbr[months[k].month], amount |-> 0]])
            /\ resp' = Response("tax_on_sales", 200, "Tax on sales report fetched.", NoToken)
            /\ UNCHANGED <<userVars, tableVars>>

(***************************************************************************)
(* Requests drawn by the specifications                                    *)
(***************************************************************************)
\* well-formed register payloads over the given values
ValidRegister(emails, passwords, actives, admins) ==
    {r \in [fullname : {"Al"}, email : emails, phone_number : {"1"}, password : passwords,
            confirm_password : passwords, is_active : actives, is_admin : admins] :
        r.password = r.confirm_password}

\* one payload for each validation failure of the register handlers
InvalidRegister ==
    LET ok == [fullname |-> "Al", email |-> "a@x.io", phone_number |-> "1",
               password |-> "password1", confirm_password |-> "password1",
               is_active |-> TRUE, is_admin |-> FALSE] IN
    {[ok EXCEPT !.fullname = ""], [ok EXCEPT !.email = NoEmail], [ok EXCEPT !.phone_number = ""],
     [ok EXCEPT !.password = ShortPassword], [ok EXCEPT !.confirm_password = "password2"]}

NoPatch == [email |-> NoEmail, password |-> "", is_active |-> Keep, is_admin |-> Keep, user_role |-> 0]
EmailPatches == {[NoPatch EXCEPT !.email = e] : e \in Emails}
ActivePatches == {[NoPatch EXCEPT !.is_active = f] : f \in {"true", "false"}}
AdminPatches == {[NoPatch EXCEPT !.is_admin = f] : f \in {"true", "false"}}

InitData ==
    /\ clients = {}
    /\ categories = {}
    /\ products = {}
    /\ orders = {}
    /\ invoices = {}
    /\ expenses = {}
    /\ activity = {}
    /\ nextId = [tb \in Tables |-> 1]
    /\ listing = NoListing

InitUsers ==
    /\ users = {}
    /\ nextUserId = 1
    /\ tokens = {}
    /\ now = 0
    /\ logins = [i \in UserIds |-> 0]
    /\ stale = {}
    /\ otps = {}
    /\ companies = {}
    /\ saving = [w \in Workers |-> Idle]
    /\ resp = Response("init", 0, "", NoToken)
    /\ InitData

(***************************************************************************)
(* The books of user 2 after one client, category, product, purchase order *)
(* and sales invoice have been added                                       *)
(***************************************************************************)
\* the row a register handler writes for a payload with is_active true
Registered(user_id, fullname, email, role, admin) ==
    [user_id |-> user_id, fullname |-> fullname, email |-> email,
     password |-> make_password("password1"),
     is_active |-> TRUE, is_deleted |-> FALSE, is_admin |-> admin, user_role |-> role,
     is_email_verified |-> FALSE]

InitAccounts ==
    /\ users = {Registered(1, "Al", "a@x.io", 1, TRUE), Registered(2, "Bo", "b@x.io", 2, FALSE)}
    /\ nextUserId = 3
    /\ tokens = {[user_id |-> i, exp |-> TokenLife, signed |-> TRUE] : i \in {1, 2}}
    /\ now = 0
    /\ logins = [i \in UserIds |-> IF i = 2 THEN 1 ELSE 0]
    /\ stale = {}
    /\ otps = {}
    /\ companies = {}
    /\ saving = [w \in Workers |-> Idle]
    /\ resp = Response("register", 200, "User registered successfully.",
                       [user_id |-> 2, exp |-> TokenLife, signed |-> TRUE])

\* the order number id of user 2, as CreatePurchaseOrderView stores it
OrderRow(id) ==
    [id |-> id, user |-> 2, is_deleted |-> FALSE, client |-> 1,
     order_number |-> OrderNumber("BO", BaseYear, next_seq(id)),
     order_type |-> "purchase", total |-> Some(1000), notes |-> "", items |-> {1}]

InvoiceRow(id, invoice_type, status, payment_due, total) ==
    [id |-> id, user |-> 2, is_deleted |-> FALSE, client |-> 1, invoice_type |-> invoice_type,
     status |-> status, issue_date |-> Some(0), payment_due |-> payment_due,
     total |-> total, notes |-> "",
     items |-> {[product |-> 1, qty |-> 1, price |-> 1000]}]

InitCatalog ==
    /\ clients = {[id |-> 1, user |-> 2, is_deleted |-> FALSE, client_name |-> "Acme"]}
    /\ categories = {[id |-> 1, user |-> 2, is_deleted |-> FALSE, is_active |-> TRUE,
                      category_name |-> "books"]}
    /\ products = {[id |-> 1, user |-> 2, is_deleted |-> FALSE, name |-> "novel",
                    category |-> 1]}
    /\ expenses = {}
    /\ listing = NoListing

InitBooks ==
    /\ InitAccounts
    /\ InitCatalog
    /\ orders = {OrderRow(1)}
    /\ invoices = {InvoiceRow(1, "sales", "Pending", Null, Some(1000))}
    /\ activity = {[id |-> 1, user |-> 2, action |-> "purchase_order", ref |-> 1],
                   [id |-> 2, user |-> 2, action |-> "sales_order", ref |-> 1]}
    /\ nextId = [tb \in Tables |-> CASE tb = "expense" -> 1 [] tb = "activity" -> 3 [] OTHER -> 2]

RowIds == 1..MaxRows

(***************************************************************************)
(* SpecOwner: updates and deletes through the detail endpoints, by the     *)
(* owner of the rows and by another user                                   *)
(***************************************************************************)
ClientPuts == [client_name : {"Acme", "Apex"}]
CategoryPuts == [category_name : {"", "Phone"}]
ProductPuts == [name : {"atlas"}, category : {0, 1}]
NotePuts == [notes : {"urgent"}]

NextOwner ==
    \/ \E t \in tokens, id \in RowIds, req \in ClientPuts : ClientDetailView_put(t, id, req)
    \/ \E t \in tokens, id \in RowIds : ClientDetailView_delete(t, id)
    \/ \E t \in tokens, id \in RowIds, req \in CategoryPuts :
          ProductCategoryDetailView_put(t, id, req)
    \/ \E t \in tokens, id \in RowIds : ProductCategoryDetailView_delete(t, id)
    \/ \E t \in tokens, id \in RowIds, req \in ProductPuts : ProductDetailsView_put(t, id, req)
    \/ \E t \in tokens, id \in RowIds : ProductDetailsView_delete(t, id)
    \/ \E t \in tokens, id \in RowIds, req \in NotePuts : PurchaseOrderDetailView_put(t, id, req)
    \/ \E t \in tokens, id \in RowIds : PurchaseOrderDetailView_delete(t, id)
    \/ \E t \in tokens, id \in RowIds, req \in NotePuts : InvoiceOrderDetailView_put(t, id, req)
    \/ \E t \in tokens, id \in RowIds : InvoiceOrderDetailView_delete(t, id)
    \/ \E t \in tokens, id \in RowIds, s \in {"Paid"} : UpdateInvoiceStatus_get(t, id, s)

SpecOwner == InitBooks /\ [][NextOwner]_vars

\* the row with this id belongs to somebody else than the bearer of the token
Foreign(rows, id, t) == has_permission(t) /\ \E r \in rows : r.id = id /\ r.user # t.user_id

\* the request was answered with an error and the table is as it was
Refused(before, after) == resp'.status \in {400, 404} /\ after = before

\* C9 (as claimed): an update or delete of a client, product, product category,
\* purchase order or invoice that names the id of another user's record is answered
\* with a not-found error and leaves the record unchanged.
C9_OnlyOwnRecords ==
    [][\A t \in tokens, id \in RowIds :
          /\ Foreign(clients, id, t) =>
                /\ \A req \in ClientPuts :
                      ClientDetailView_put(t, id, req) => Refused(clients, clients')
                /\ ClientDetailView_delete(t, id) => Refused(clients, clients')
          /\ Foreign(categories, id, t) =>
                /\ \A req \in CategoryPuts :
                      ProductCategoryDetailView_put(t, id, req) => Refused(categories, categories')
                /\ ProductCategoryDetailView_delete(t, id) => Refused(categories, categories')
          /\ Foreign(products, id, t) =>
                /\ \A req \in ProductPuts :
                      ProductDetailsView_put(t, id, req) => Refused(products, products')
                /\ ProductDetailsView_delete(t, id) => Refused(products, products')
          /\ Foreign(orders, id, t) =>
                /\ \A req \in NotePuts :
                      PurchaseOrderDetailView_put(t, id, req) => Refused(orders, orders')
                /\ PurchaseOrderDetailView_delete(t, id) => Refused(orders, orders')
          /\ Foreign(invoices, id, t) =>
                /\ \A req \in NotePuts :
                      InvoiceOrderDetailView_put(t, id, req) => Refused(invoices, invoices')
                /\ InvoiceOrderDetailView_delete(t, id) => Refused(invoices, invoices')]_vars

(***************************************************************************)
(* SpecLists: the list endpoints and the expense report while rows are     *)
(* added and soft-deleted                                                  *)
(***************************************************************************)
ExpenseReqs == [expense_name : {"lunch"}, amount : {Some(1000)},
                category : {"Food & Dining"}, expense_date : {"2025-01-01"}]
                  \cup {[expense_name |-> "", amount |-> Some(1000), category |-> "Transport",
                         expense_date |-> "2025-01-01"]}

InvoiceReqs == [client : {1}, invoice_type : {"purchase"}, issue_date : {Some(0)},
                payment_due : {Null}, total : {Some(500)},
                items : {{[product |-> 1, qty |-> 1, price |-> 500]}}]

AdminTables == {"client", "category", "product", "order", "invoice"}

NextLists ==
    \/ \E t \in tokens, req \in ExpenseReqs : AddUserExpense_post(t, req)
    \/ \E t \in tokens, req \in InvoiceReqs : AddInvoiceView_post(t, req)
    \/ \E tb \in AdminTables, id \in RowIds : SoftDelete(tb, id)
    \/ \E id \in RowIds : SoftDeleteExpense(id)
    \/ \E t \in tokens : ClientView_get(t)
    \/ \E t \in tokens : ProductCategoryListView_get(t)
    \/ \E t \in tokens : ProductListView_get(t)
    \/ \E t \in tokens : PurchaseOrderListView_get(t)
    \/ \E t \in tokens, ty \in OrderTypes \cup {"", "other"} : InvoiceListView_get(t, ty)
    \/ \E t \in tokens : UserExpenseList_get(t)
    \/ \E t \in tokens : UserListView_get(t)
    \/ \E t \in tokens : ExpenseReportPage_get(t)

SpecLists == InitBooks /\ [][NextLists]_vars

\* the table a list endpoint reads
ListedTable(op) == CASE op = "client_list" -> clients
                     [] op = "category_list" -> categories
                     [] op = "product_list" -> products
                     [] op = "order_list" -> orders
                     [] op = "invoice_list" -> invoices
                     [] op = "expense_list" -> expenses
                     [] OTHER -> {}

ListOps == {"client_list", "category_list", "product_list", "order_list", "invoice_list",
            "expense_list"}

\* the last response is a list or report of this kind, and listing holds its data
Answered(op) == resp.op = op /\ resp.status = 200 /\ listing.op = op

\* C3 (as claimed): no list endpoint returns a row whose is_deleted flag is set.
C3_NoDeletedRowListed ==
    /\ \A op \in ListOps :
          Answered(op) => \A r \in ListedTable(op) : r.id \in listing.rows => ~r.is_deleted
    /\ Answered("user_list") => \A u \in users : u.user_id \in listing.rows => ~u.is_deleted

\* C10 (as claimed): every list holds only rows of the requesting user, and the
\* total_spent of the expense report is the sum of the requesting user's expenses.
C10_OnlyOwnRecordsReported ==
    /\ \A op \in ListOps :
          Answered(op) => \A r \in ListedTable(op) : r.id \in listing.rows => r.user = listing.user
    /\ Answered("expense_report") =>
          LET own == {e \in expenses : e.user = listing.user} IN
          listing.total = Total(Amounts(own), own)

(***************************************************************************)
(* SpecAging: the two aging reports over drawn sets of invoices            *)
(***************************************************************************)
\* who owns the invoice, whether it is deleted, its type, status and issue date
Templates ==
    <<[user |-> 2, is_deleted |-> FALSE, invoice_type |-> "sales", status |-> "Pending",
       issue_date |-> Some(0)],
      [user |-> 2, is_deleted |-> FALSE, invoice_type |-> "purchase", status |-> "Overdue",
       issue_date |-> Some(0)],
      [user |-> 2, is_deleted |-> FALSE, invoice_type |-> "sales", status |-> "paid",
       issue_date |-> Some(0)],
      [user |-> 1, is_deleted |-> FALSE, invoice_type |-> "sales", status |-> "Pending",
       issue_date |-> Some(0)],
      [user |-> 2, is_deleted |-> TRUE, invoice_type |-> "purchase", status |-> "Pending",
       issue_date |-> Null]>>

\* due dates and as-of dates, in days: the differences fall on both sides of
\* every bucket edge
DueDates == <<Null, Some(100), Some(101)>>
AsOfDates == {100, 101, 131, 161, 191}
InvoiceTotals == <<Some(1050), Null>>

Draws == [tpl : 1..Len(Templates), due : 1..Len(DueDates), tot : 1..Len(InvoiceTotals)]

Code(d) == (d.tpl * Len(DueDates) + d.due) * Len(InvoiceTotals) + d.tot

DrawnInvoice(id, d) ==
    [id |-> id, user |-> Templates[d.tpl].user, is_deleted |-> Templates[d.tpl].is_deleted,
     client |-> 1, invoice_type |-> Templates[d.tpl].invoice_type,
     status |-> Templates[d.tpl].status, issue_date |-> Templates[d.tpl].issue_date,
     payment_due |-> DueDates[d.due], total |-> InvoiceTotals[d.tot], notes |-> "",
     items |-> {}]

\* up to MaxInvoices invoices on file, in one order of insertion
InitAging ==
    /\ InitAccounts
    /\ InitCatalog
    /\ orders = {}
    /\ \E n \in 0..MaxInvoices : \E f \in [1..n -> Draws] :
          /\ \A k \in 1..n : k < n => Code(f[k]) <= Code(f[k + 1])
          /\ invoices = {DrawnInvoice(k, f[k]) : k \in 1..n}
          /\ activity = {[id |-> k, user |-> Templates[f[k].tpl].user,
                          action |-> IF Templates[f[k].tpl].invoice_type = "purchase"
                                     THEN "purchase_order" ELSE "sales_order",
                          ref |-> k] : k \in {j \in 1..n : InvoiceTotals[f[j].tot] # Null}}
          /\ nextId = [tb \in Tables |->
                          CASE tb = "invoice" -> n + 1
                            [] tb = "activity" ->
                                 Cardinality({j \in 1..n : InvoiceTotals[f[j].tot] # Null}) + 1
                            [] tb = "expense" -> 1
                            [] tb = "order" -> 1
                            [] OTHER -> 2]

NextAging ==
    \/ \E t \in tokens, as_of \in AsOfDates : OutstandingReceivables_get(t, as_of)
    \/ \E t \in tokens, as_of \in AsOfDates, sf \in {"", "overdue"} :
          OutstandingPayables_get(t, as_of, sf)

SpecAging == InitAging /\ [][NextAging]_vars

RECURSIVE SumAging(_, _)
SumAging(parts, k) == IF k = 0 THEN 0 ELSE SumAging(parts, k - 1) + Cents(parts[k].amount)

\* C4: in the response of OutstandingReceivables and of OutstandingPayables the
\* amounts of the five aging buckets add up to the reported total outstanding.
C4_BucketsSumToTotal ==
    \A op \in {"receivables", "payables"} :
        Answered(op) =>
            /\ Len(listing.parts) = Len(aging_ranges)
            /\ SumAging(listing.parts, Len(listing.parts)) = Cents(listing.total)

\* a receivables report with a positive total spread over two buckets
C4_Witness ==
    /\ Answered("receivables")
    /\ Cents(listing.total) > 0
    /\ Cardinality({k \in 1..Len(listing.parts) : Cents(listing.parts[k].amount) > 0}) >= 2

(***************************************************************************)
(* SpecPercent: the three percentage-of-total breakdowns                   *)
(***************************************************************************)
\* one expense in a listed category, one outside the list, one written in
\* another case; an amount may be a refund
PercentExpenses == [expense_name : {"lunch"}, amount : {Some(10000), Some(-5000)},
                    category : {"Food & Dining", "Misc", "transport"},
                    expense_date : {"2025-01-01"}]
                      \cup {[expense_name |-> "lunch", amount |-> Null,
                             category |-> "Transport", expense_date |-> "2025-01-01"]}

PercentCategories == [category_name : {"", "Phone", "Books"}]

PercentProducts == [name : {"handset"}, item_sku : {"sku-2"}, category : {0, 2, 3}]
                     \cup {[name |-> "handset", item_sku |-> "", category |-> 2],
                           [name |-> "", item_sku |-> "sku-2", category |-> 2]}

PercentInvoices ==
    [client : {1}, invoice_type : {"sales"}, issue_date : {Some(0)}, payment_due : {Null},
     total : {Some(500)},
     items : {{[product |-> 1, qty |-> 1, price |-> 500]},
              {[product |-> 2, qty |-> 2, price |-> 500]},
              {[product |-> 1, qty |-> 1, price |-> 500],
               [product |-> 2, qty |-> 1, price |-> 1000]}}]
      \cup {[client |-> c[1], invoice_type |-> c[2], issue_date |-> Some(0),
              payment_due |-> Null, total |-> Null, items |-> {}] :
                c \in {<<0, "sales">>, <<1, "">>, <<1, "rent">>, <<2, "sales">>}}

NextPercent ==
    \/ \E t \in tokens, req \in PercentExpenses : AddUserExpense_post(t, req)
    \/ \E t \in tokens, req \in PercentCategories : AddProductCategory_post(t, req)
    \/ \E t \in tokens, req \in PercentProducts : AddProductView_post(t, req)
    \/ \E t \in tokens, req \in PercentInvoices : AddInvoiceView_post(t, req)
    \/ \E t \in tokens : ExpenseReportPage_get(t)
    \/ \E t \in tokens : ExpenseByCategoryReportView_get(t)
    \/ \E t \in tokens : SalesSummaryView_get(t)

SpecPercent == InitBooks /\ [][NextPercent]_vars

RECURSIVE SumPercent(_, _)
SumPercent(parts, k) == IF k = 0 THEN 0 ELSE SumPercent(parts, k - 1) + parts[k].percentage

\* the total a breakdown divides by: the requester's expenses for the expense
\* report page, the reported total for the other two
BreakdownTotal(op) ==
    IF op = "expense_report"
    THEN LET own == {e \in expenses : e.user = listing.user} IN Total(Amounts(own), own)
    ELSE listing.total

\* C5: in each of the three breakdowns the percentages (in hundredths of a per
\* cent) add up to 100.00, within half a hundredth per entry, when the total is
\* positive, and every percentage is 0 when the total is 0.
C5_PercentagesSumTo100 ==
    \A op \in {"expense_report", "expense_by_category", "sales_summary"} :
        Answered(op) =>
            LET sum == SumPercent(listing.parts, Len(listing.parts))
                off == IF sum >= 10000 THEN sum - 10000 ELSE 10000 - sum IN
            /\ BreakdownTotal(op) > 0 => 2 * off <= Len(listing.parts)
            /\ BreakdownTotal(op) = 0 =>
                  \A k \in 1..Len(listing.parts) : listing.parts[k].percentage = 0

\* the same for the two breakdowns that always list every category
C5_FixedBreakdownsSumTo100 ==
    \A op \in {"expense_by_category", "sales_summary"} :
        Answered(op) =>
            LET sum == SumPercent(listing.parts, Len(listing.parts))
                off == IF sum >= 10000 THEN sum - 10000 ELSE 10000 - sum IN
            /\ listing.total > 0 => 2 * off <= Len(listing.parts)
            /\ listing.total <= 0 =>
                  \A k \in 1..Len(listing.parts) : listing.parts[k].percentage = 0

(***************************************************************************)
(* SpecPO: purchase orders created one after another, past the ninety-     *)
(* ninth of a year                                                         *)
(***************************************************************************)
\* user 2 has created Existing orders this year and deleted none
InitPO ==
    /\ InitAccounts
    /\ InitCatalog
    /\ orders = {OrderRow(k) : k \in 1..Existing}
    /\ invoices = {}
    /\ activity = {[id |-> k, user |-> 2, action |-> "purchase_order", ref |-> k] :
                      k \in 1..Existing}
    /\ nextId = [tb \in Tables |->
                    CASE tb \in {"order", "activity"} -> Existing + 1
                      [] tb \in {"invoice", "expense"} -> 1
                      [] OTHER -> 2]

OrderReqs ==
    [client : {1}, order_type : {"purchase"}, total : {Some(1000)}, items : {{1}}, qty : {"1"}]
      \cup {[client |-> c[1], order_type |-> c[2], total |-> Some(1000), items |-> c[3],
              qty |-> "1"] :
              c \in {<<0, "purchase", {1}>>, <<1, "rent", {1}>>, <<2, "purchase", {1}>>}}

RecentOrders == (Existing - 1)..MaxOrders

NextPO ==
    \/ \E t \in tokens, req \in OrderReqs : CreatePurchaseOrderView_post(t, req)
    \/ \E t \in tokens, order_id \in RecentOrders : PurchaseOrderDetailView_delete(t, order_id)
    \/ \E t \in tokens : PurchaseOrderListView_get(t)

SpecPO == InitPO /\ [][NextPO]_vars

\* a creation request that passes every check of the handler
WellFormedOrder(t, req) ==
    /\ has_permission(t)
    /\ req.client \in Ids(clients)
    /\ req.order_type \in OrderTypes
    /\ req.items # {}
    /\ ValidItems(req.items, request_user(t))
    /\ req.total # Null

NoSharedOrderNumber ==
    \A o \in orders, q \in orders :
        (o.user = q.user /\ o.order_number = q.order_number) => o = q

\* C6: when purchase orders are created one after another, every well-formed
\* creation succeeds and no two orders of one user and year share an order
\* number.
C6_SequentialOrdersUnique ==
    [][/\ \A t \in tokens, req \in OrderReqs :
             (WellFormedOrder(t, req) /\ CreatePurchaseOrderView_post(t, req))
                => resp'.status = 200
       /\ NoSharedOrderNumber']_vars

\* the order numbered 100 has been stored next to the one numbered 99
C6_HundredthOrder ==
    \E o \in orders, q \in orders :
        /\ o.user = q.user
        /\ o.order_number.year = q.order_number.year
        /\ o.order_number.seq = <<9, 9>>
        /\ q.order_number.seq = <<1, 0, 0>>

(***************************************************************************)
(* SpecStatus: invoices are added, their status is set through             *)
(* UpdateInvoiceStatus and the home page marks the overdue ones            *)
(***************************************************************************)
\* two users, the catalog of user 2, and no order or invoice yet
InitLedger ==
    /\ InitAccounts
    /\ InitCatalog
    /\ orders = {}
    /\ invoices = {}
    /\ activity = {}
    /\ nextId = [tb \in Tables |->
                    IF tb \in {"client", "category", "product"} THEN 2 ELSE 1]

StatusInvoices ==
    [client : {1}, invoice_type : {"purchase"}, issue_date : {Some(0)},
     payment_due : {Some(100)}, total : {Some(500), Null},
     items : {{[product |-> 1, qty |-> 1, price |-> 500]}}]
      \cup {[client |-> 1, invoice_type |-> "sales", issue_date |-> Some(0),
              payment_due |-> Null, total |-> Some(500), items |-> {}]}

StatusValues == {"", "Pending", "Paid", "Overdue", "Cancelled"}

Today == {100, 101}

NextStatus ==
    \/ \E t \in tokens, req \in StatusInvoices : AddInvoiceView_post(t, req)
    \/ \E t \in tokens, invoice_id \in RowIds, status_value \in StatusValues :
          UpdateInvoiceStatus_get(t, invoice_id, status_value)
    \/ \E t \in tokens, today \in Today : HomePageView_get(t, today)

SpecStatus == InitLedger /\ [][NextStatus]_vars

\* C11: the status of an invoice stays within Pending, Paid and Overdue, and a
\* step changes it only from Pending to Paid or from Pending to Overdue.
C11_StatusLifecycle ==
    [][\A i \in invoices, j \in invoices' :
          i.id = j.id =>
             /\ j.status \in {"Pending", "Paid", "Overdue"}
             /\ j.status = i.status
                   \/ (i.status = "Pending" /\ j.status \in {"Paid", "Overdue"})]_vars

\* the part of the lifecycle the home page follows: it moves invoices from
\* Pending to Overdue only
C11_HomePageMarksOverdue ==
    [][\A t \in tokens, today \in Today :
          HomePageView_get(t, today) =>
             \A i \in invoices, j \in invoices' :
                i.id = j.id => j.status = i.status
                                 \/ (i.status = "Pending" /\ j.status = "Overdue")]_vars

(***************************************************************************)
(* SpecPassword: passwords are changed while an admin edits the accounts   *)
(* and users log in                                                        *)
(***************************************************************************)
PasswordReqs ==
    [old_password : GoodPasswords, new_password : GoodPasswords,
     confirm_password : GoodPasswords]
      \cup {[old_password |-> c[1], new_password |-> c[2], confirm_password |-> c[3]] :
              c \in {<<"", "password2", "password2">>, <<"password1", "", "password2">>,
                     <<"password1", "password2", "">>,
                     <<"password1", ShortPassword, ShortPassword>>}}

PasswordLogins == [email : Emails, password : GoodPasswords, is_admin : BOOLEAN]

PasswordPuts == ActivePatches \cup AdminPatches \cup EmailPatches

NextPassword ==
    \/ \E t \in tokens, req \in PasswordReqs : ChangePasswordView_post(t, req)
    \/ \E req \in PasswordLogins : LoginView_post(req)
    \/ \E t \in tokens, i \in UserIds, req \in PasswordPuts : UserDetailView_put(t, i, req)

InitPassword == InitAccounts /\ InitData

SpecPassword == InitPassword /\ [][NextPassword]_vars

\* the status LoginView.post answers a request with
LoginStatus(req) ==
    IF is_required(req.email) \/ is_required(req.password) THEN 400
    ELSE IF LoginCandidates(req) = {} THEN 401
    ELSE IF check_password(req.password, First(LoginCandidates(req)).password) THEN 200
    ELSE 401

\* the stored password changes only on a request whose old_password matches,
\* whose new_password has 8 characters or more, equals confirm_password and is
\* not the current password; a rejected request changes no user
PasswordChangeGuarded(t, req) ==
    LET user == request_user(t) IN
    /\ users' # users =>
          /\ resp'.status = 200
          /\ check_password(req.old_password, user.password)
          /\ Len(req.new_password) >= 8
          /\ req.new_password = req.confirm_password
          /\ ~check_password(req.new_password, user.password)
          /\ users' = Save(user, [user EXCEPT !.password = make_password(req.new_password)])
    /\ resp'.status # 200 => users' = users

\* after a successful change the user logs in with the new password and is
\* refused with the old one
LoginFollowsChange(t, req) ==
    LET user == request_user(t)
        login(password) == [email |-> user.email, password |-> password,
                            is_admin |-> user.is_admin] IN
    resp'.status = 200 =>
       /\ LoginStatus(login(req.new_password))' = 200
       /\ LoginStatus(login(req.old_password))' = 401

\* C12: ChangePasswordView.post changes the stored password only when
\* old_password matches, new_password has at least 8 characters, equals
\* confirm_password and differs from the current password; after a successful
\* change login succeeds with the new password and fails (401) with the old one,
\* and a rejected request leaves the stored password unchanged.
C12_PasswordChange ==
    [][\A t \in tokens, req \in PasswordReqs :
          (has_permission(t) /\ ChangePasswordView_post(t, req))
             => PasswordChangeGuarded(t, req) /\ LoginFollowsChange(t, req)]_vars

\* the first and the last part of C12 on their own
C12_ChangeGuarded ==
    [][\A t \in tokens, req \in PasswordReqs :
          (has_permission(t) /\ ChangePasswordView_post(t, req))
             => PasswordChangeGuarded(t, req)]_vars

(***************************************************************************)
(* SpecRegister: registration against a user table whose rows change       *)
(* email, is_active and is_deleted                                         *)
(***************************************************************************)
RegisterReqs == ValidRegister(Emails, {"password1"}, BOOLEAN, {FALSE}) \cup InvalidRegister
RegisterPuts == EmailPatches \cup ActivePatches

NextRegister ==
    \/ \E req \in RegisterReqs : RegisterView_post(req)
    \/ \E req \in RegisterReqs : AdminRegisterView_post(req)
    \/ \E t \in tokens, req \in RegisterPuts : UserProfileView_put(t, req)
    \/ \E t \in tokens : UserProfileView_delete(t)
    \/ \E i \in UserIds : SoftDeleteUser(i)

SpecRegister == InitUsers /\ [][NextRegister]_vars

\* the other checks of the register handlers pass
OtherwiseValid(req, needPhone) ==
    /\ req.fullname # "" /\ req.email # NoEmail /\ req.password # ""
    /\ (needPhone => req.phone_number # "")
    /\ Len(req.password) >= 8
    /\ req.password = req.confirm_password

DuplicateActive(req) == \E u \in users : u.email = req.email /\ u.is_active /\ ~u.is_deleted

RejectedAsDuplicate ==
    /\ resp'.status = 400
    /\ resp'.message = "Email already exists."
    /\ users' = users
    /\ nextUserId' = nextUserId

\* C1: a register or admin-register request, valid in every other respect, whose
\* email is that of a user with is_active and not is_deleted is answered 400
\* "Email already exists." and inserts no user row.
C1_DuplicateEmailRejected ==
    [][\A req \in RegisterReqs :
          DuplicateActive(req) =>
            /\ (OtherwiseValid(req, TRUE) /\ RegisterView_post(req)) => RejectedAsDuplicate
            /\ (OtherwiseValid(req, FALSE) /\ AdminRegisterView_post(req)) => RejectedAsDuplicate]_vars

\* a register request was refused for its email while a user row exists
C1_Witness ==
    /\ resp.op \in {"register", "admin_register"}
    /\ resp.status = 400
    /\ resp.message = "Email already exists."
    /\ \E u \in users : u.is_active /\ ~u.is_deleted

(***************************************************************************)
(* SpecUsers: registration, login and user updates                         *)
(***************************************************************************)
UsersReqs == ValidRegister(Emails, GoodPasswords, BOOLEAN, {FALSE}) \cup InvalidRegister
UsersPuts == ActivePatches \cup AdminPatches \cup EmailPatches

NextUsers ==
    \/ \E req \in UsersReqs : RegisterView_post(req)
    \/ \E req \in UsersReqs : AdminRegisterView_post(req)
    \/ \E req \in LoginRequests : LoginView_post(req)
    \/ \E t \in tokens, req \in UsersPuts : UserProfileView_put(t, req)
    \/ \E t \in tokens, i \in UserIds, req \in UsersPuts : UserDetailView_put(t, i, req)

SpecUsers == InitUsers /\ [][NextUsers]_vars

\* C8 (as claimed): at most one user with is_active and not is_deleted per email.
C8_OneActiveUserPerEmail ==
    \A u, v \in users :
        (u.email = v.email /\ u.is_active /\ ~u.is_deleted /\ v.is_active /\ ~v.is_deleted)
            => u = v

\* C2 (as claimed): a login naming an active, non-deleted user with the request's
\* is_admin value is answered 200 with a token when the password matches that
\* user's stored hash, and 401 "Invalid password." with no token and no new
\* UserLogin row when it does not.
C2_LoginByPassword ==
    [][\A req \in LoginRequests : \A u \in users :
          (/\ req.password # ""
           /\ u.email = req.email /\ u.is_active /\ ~u.is_deleted /\ u.is_admin = req.is_admin
           /\ LoginView_post(req))
          => IF u.password = make_password(req.password)
             THEN resp'.status = 200 /\ resp'.token # NoToken
             ELSE /\ resp'.status = 401 /\ resp'.message = "Invalid password."
                  /\ resp'.token = NoToken /\ logins' = logins]_vars

(***************************************************************************)
(* SpecAuth: the bearer-token check while users are deactivated,           *)
(* reactivated and deleted and time passes                                 *)
(***************************************************************************)
AuthLogins == [email : Emails, password : {"password1"}, is_admin : BOOLEAN]

\* the state after AdminRegisterView.post for a@x.io and RegisterView.post for
\* b@x.io at time 0: two users, their tokens, the UserLogin row of the second
InitAuth == InitAccounts /\ InitData

NextAuth ==
    \/ \E req \in AuthLogins : LoginView_post(req)
    \/ \E t \in tokens, req \in ActivePatches : UserProfileView_put(t, req)
    \/ \E t \in tokens : UserProfileView_delete(t)
    \/ \E t \in tokens, i \in UserIds, req \in ActivePatches : UserDetailView_put(t, i, req)
    \/ \E t \in tokens, i \in UserIds : UserDetailView_delete(t, i)
    \/ \E i \in UserIds : SoftDeleteUser(i)
    \/ Tick
    \/ \E t \in tokens \cup ForgedTokens : Authenticate(t)

SpecAuth == InitAuth /\ [][NextAuth]_vars

Granted(t) == resp.op = "auth" /\ resp.token = t /\ resp.status = 200

LiveUser(user_id) == \E u \in users : u.user_id = user_id /\ u.is_active /\ ~u.is_deleted

\* C7 (as claimed): once a user has been deactivated or deleted, no request
\* carrying a token issued before that is ever granted again.
C7_StaleTokenNeverGranted == \A t \in stale : ~Granted(t)

\* C7 (amended): a request is granted only if its token is signed, unexpired and
\* names a user that exists, is active and is not deleted at that moment; a token
\* issued before its user was deactivated or deleted is denied for as long as the
\* user is inactive, deleted or gone.
C7_GrantedOnlyToLiveUser ==
    /\ (resp.op = "auth" /\ resp.status = 200)
          => (resp.token.signed /\ resp.token.exp > now /\ LiveUser(resp.token.user_id))
    /\ \A t \in stale : ~LiveUser(t.user_id) => ~Granted(t)

\* an unexpired token of a deactivated or deleted user was presented and denied
C7_Witness ==
    /\ resp.op = "auth" /\ resp.status = 403
    /\ resp.token \in stale
    /\ resp.token.signed /\ resp.token.exp > now
    /\ ~LiveUser(resp.token.user_id)

(***************************************************************************)
(* SpecActivity: the handlers that write the activity log, next to the     *)
(* deletes of the rows and of the users the entries refer to               *)
(***************************************************************************)
ActivityOrders ==
    [client : {1}, order_type : {"purchase"}, total : {Some(1000)}, items : {{1}}, qty : {"1"}]

ActivityInvoices ==
    [client : {1}, invoice_type : {"purchase"}, issue_date : {Some(0)},
     payment_due : {Some(100)}, total : {Some(500), Null},
     items : {{[product |-> 1, qty |-> 1, price |-> 500]}}]

NextActivity ==
    \/ \E t \in tokens, req \in ActivityOrders :
          nextId["order"] <= MaxLogged /\ CreatePurchaseOrderView_post(t, req)
    \/ \E t \in tokens, req \in ActivityInvoices : AddInvoiceView_post(t, req)
    \/ \E t \in tokens, today \in Today : HomePageView_get(t, today)
    \/ \E t \in tokens, order_id \in RowIds : PurchaseOrderDetailView_delete(t, order_id)
    \/ \E t \in tokens : UserProfileView_delete(t)
    \/ \E t \in tokens, i \in UserIds : UserDetailView_delete(t, i)

SpecActivity == InitLedger /\ [][NextActivity]_vars

OtpTypes == {"reset_password", "verify_email"}

SendReqs == [email : Emails, otp_type : OtpTypes]
               \cup {[email |-> NoEmail, otp_type |-> "verify_email"],
                     [email |-> "b@x.io", otp_type |-> ""],
                     [email |-> "b@x.io", otp_type |-> "signup"]}

VerifyReqs == [email : Emails, otp_type : OtpTypes, otp_code : Codes]
                 \cup {[email |-> NoEmail, otp_type |-> "verify_email", otp_code |-> "100000"],
                       [email |-> "b@x.io", otp_type |-> "", otp_code |-> "100000"],
                       [email |-> "b@x.io", otp_type |-> "verify_email", otp_code |-> ""],
                       [email |-> "b@x.io", otp_type |-> "signup", otp_code |-> "100000"]}

NextOtp ==
    \/ \E req \in SendReqs, code \in Codes : nextId["otp"] <= MaxOtps /\ SendOTPView_post(req, code)
    \/ \E req \in VerifyReqs : VerifyOTPView_post(req)
    \/ \E t \in tokens : UserDetailView_put(t, 2, [NoPatch EXCEPT !.is_active = "false"])
    \/ Tick

SpecOtp == InitAuth /\ [][NextOtp]_vars

\* the rows of OTPs kept for an (email, otp_type) pair
OtpsOf(rows, email, otp_type) == {o \in rows : o.user = email /\ o.otp_type = otp_type}

OtpPairs == {<<o.user, o.otp_type>> : o \in otps \cup otps'}

\* C14: after any sequence of SendOTP and VerifyOTP requests made one after the
\* other, at most one Otp row exists for each (email, otp_type) pair, and it is
\* the row the most recent SendOTP for that pair created: a step that creates a
\* row for a pair leaves that row alone for the pair, and every other step
\* keeps for a pair only rows it already had.
C14_OneOtpPerPair ==
    [][/\ \A o \in otps' : \A x \in otps' :
             (o.user = x.user /\ o.otp_type = x.otp_type) => o = x
       /\ \A pair \in OtpPairs :
             LET old == OtpsOf(otps, pair[1], pair[2])
                 new == OtpsOf(otps', pair[1], pair[2]) IN
             IF \E o \in new : o.id = nextId["otp"]
             THEN Cardinality(new) = 1
             ELSE new \subseteq old]_vars

\* a second OTP was sent for a pair that still had one, and only the second is on file
C14_Witness ==
    /\ resp.op = "send_otp" /\ resp.status = 200
    /\ nextId["otp"] = 3
    /\ \E o \in otps : o.id = 2 /\ OtpsOf(otps, o.user, o.otp_type) = {o}
    /\ \A o \in otps : o.id # 1
    /\ Cardinality(otps) = 1


\* the OTP a verify request presents, if there is one
Presented(req) == IF MatchingOtps(req) = {} THEN {} ELSE {FirstRow(MatchingOtps(req))}

\* C20: VerifyOTPView.post never reports success for an OTP whose expiry_time
\* (five minutes after its creation) has passed: the request is answered 400
\* "OTP has expired. Please request new otp", that OTP is deleted and no user is
\* changed; a request that is answered 200 presented an OTP that had not expired.
C20_ExpiredOtpRefused ==
    [][/\ \A req \in VerifyReqs : \A otp \in Presented(req) :
             (now > otp.expiry_time /\ VerifyOTPView_post(req)) =>
                /\ resp'.status = 400
                /\ resp'.message = "OTP has expired. Please request new otp"
                /\ otps' = otps \ {otp}
                /\ users' = users
       /\ (resp'.op = "verify_otp" /\ resp'.status = 200) =>
             \E otp \in otps \ otps' : now <= otp.expiry_time]_vars

\* an OTP was presented after its five minutes and refused
C20_Witness ==
    /\ resp.op = "verify_otp"
    /\ resp.status = 400
    /\ resp.message = "OTP has expired. Please request new otp"
    /\ now > OtpLife
    /\ otps = {}
    /\ nextId["otp"] = 2


(***************************************************************************)
(* SpecCompany: the two users add, rename and delete their company         *)
(***************************************************************************)
CompanyReqs == [company_name : {"", "Acme", "Apex"}, company_email : {"", "c@x.io", "c-at-x"}]

NextCompany ==
    \/ \E t \in tokens, req \in CompanyReqs :
          nextId["company"] <= MaxRows + 1 /\ UserCompany_post(t, req)
    \/ \E t \in tokens, req \in CompanyReqs : UserCompany_put(t, req)
    \/ \E t \in tokens : UserCompany_delete(t)

SpecCompany == InitAuth /\ [][NextCompany]_vars

\* C15: after any sequence of add-company and delete-company requests a user
\* has at most one company row with is_deleted=False; an add that names a
\* company while the user has one is answered 400 "User already has a company
\* associated with it." and creates nothing.
C15_OneCompanyPerUser ==
    [][/\ \A c \in companies' : \A x \in companies' :
             (c.user = x.user /\ ~c.is_deleted /\ ~x.is_deleted) => c = x
       /\ \A t \in tokens, req \in CompanyReqs :
             (/\ req.company_name # ""
              /\ CompanyOf(request_user(t)) # {}
              /\ UserCompany_post(t, req)) =>
                /\ resp'.status = 400
                /\ resp'.message = "User already has a company associated with it."
                /\ companies' = companies]_vars

\* a user who deleted a first company and added a second is refused a third
C15_Witness ==
    /\ resp.op = "company_add"
    /\ resp.status = 400
    /\ resp.message = "User already has a company associated with it."
    /\ \E c \in companies : c.id = 2 /\ c.user = 2
    /\ \A c \in companies : c.id # 1


(***************************************************************************)
(* SpecCategory: the two users add, rename and delete product categories   *)
(***************************************************************************)
CategoryReqs == [category_name : {"", "Books", "phone", "toys"}]

NextCategory ==
    \/ \E t \in tokens, req \in CategoryReqs : AddProductCategory_post(t, req)
    \/ \E t \in tokens, id \in 1..(MaxRows + 1), req \in CategoryReqs :
          ProductCategoryDetailView_put(t, id, req)
    \/ \E t \in tokens, id \in 1..(MaxRows + 1) : ProductCategoryDetailView_delete(t, id)

SpecCategory == InitLedger /\ [][NextCategory]_vars

\* C16 (as claimed): after any sequence of add-category and update-category
\* requests by any users, no two product categories of the same user that are
\* not deleted have the same lower-cased category_name.
C16_CategoryNamesUnique ==
    \A c \in categories : \A x \in categories :
        (/\ c.user = x.user
         /\ ~c.is_deleted /\ ~x.is_deleted
         /\ lower(c.category_name) = lower(x.category_name)) => c = x

\* what does hold: a user's own requests never give that user two categories of
\* one name; the add handler refuses a name that any user's category carries
C16_OwnRequestsKeepNamesUnique ==
    [][\A t \in tokens, id \in 1..(MaxRows + 1), req \in CategoryReqs :
          LET user == request_user(t)
              mine(rows) == {c \in rows : c.user = user.user_id /\ ~c.is_deleted}
              handled == \/ AddProductCategory_post(t, req)
                         \/ /\ ProductCategoryDetailView_put(t, id, req)
                            /\ \E c \in mine(categories) : c.id = id IN
          (/\ has_permission(t)
           /\ \A c \in mine(categories) : \A x \in mine(categories) :
                 c.category_name = x.category_name => c = x
           /\ handled) =>
             \A c \in mine(categories') : \A x \in mine(categories') :
                 c.category_name = x.category_name => c = x]_vars


(***************************************************************************)
(* SpecErrors: requests that make a handler's body raise                   *)
(***************************************************************************)
\* str(exception) of the exceptions the handlers of the model raise
Exceptions == {"TypeError", "NameError", "AttributeError", "IntegrityError"}

\* JSON and form posts of a new client
ErrorClients == [client_name : {"", "Apex"}, email : {"", "c@x.io"}, phone_number : {"1"},
                 immutable : BOOLEAN]

ErrorOrders == [client : {1}, order_type : {"purchase"}, total : {Some(1000), Null},
                items : {{}, {1}}, qty : {"1"}]

NextErrors ==
    \/ \E t \in tokens, req \in ErrorClients : AddClientView_post(t, req)
    \/ \E t \in tokens, req \in ErrorOrders :
          nextId["order"] <= MaxLogged + 1 /\ CreatePurchaseOrderView_post(t, req)
    \/ \E t \in tokens, req \in ActivityInvoices : AddInvoiceView_post(t, req)

SpecErrors == InitLedger /\ [][NextErrors]_vars

\* C17 (as claimed): every request handler, when an exception is raised inside
\* its body, returns HTTP 400 with the body {success: false, message:
\* str(exception)}.
C17_ExceptionsAnswered400 == resp.message \in Exceptions => resp.status = 400

\* what does hold: the handlers that add an order or an invoice answer an
\* exception with 400
C17_LedgerExceptionsAnswered400 ==
    (resp.message \in Exceptions /\ resp.op \in {"order_add", "invoice_add"})
        => resp.status = 400


(***************************************************************************)
(* SpecRace: two workers create purchase orders at the same time           *)
(***************************************************************************)
RaceOrders == [client : {1}, order_type : {"purchase", "sales"}, total : {Some(1000)},
               items : {{}, {1}}, qty : {"1"}]

NextRace ==
    \/ \E w \in Workers, t \in tokens, req \in RaceOrders :
          nextId["order"] <= MaxRows /\ PurchaseOrders_save_read(w, t, req)
    \/ \E w \in Workers : PurchaseOrders_save_insert(w)

SpecRace == InitLedger /\ [][NextRace]_vars

\* the number a worker read is the number of an order stored since
Collides(w) == \E s \in saving[w] : IntegrityError(s.number)

\* C18 (as claimed): when two creations of a purchase order for the same user
\* and year run at the same time both can compute the same order_number, and
\* nothing enforces uniqueness: the save of the second is stored with that number.
C18_CollidingSaveStored ==
    [][\A w \in Workers : (Collides(w) /\ PurchaseOrders_save_insert(w)) =>
          \E o \in orders' \ orders : \E s \in saving[w] : o.order_number = s.number]_vars

\* C18 (amended): both can compute the same order_number, and unique=True on
\* order_number refuses the second insert: that request is answered 400 with
\* the IntegrityError, stores nothing, and no two stored orders share a number.
C18_CollidingSaveRefused ==
    [][/\ \A w \in Workers : (Collides(w) /\ PurchaseOrders_save_insert(w)) =>
             /\ resp'.status = 400
             /\ resp'.message = "IntegrityError"
             /\ orders' = orders
       /\ \A o \in orders' : \A x \in orders' : o.order_number = x.order_number => o = x]_vars

\* two workers read the same number; the first has stored its order and the
\* second has just been refused
C18_Witness ==
    /\ resp.op = "order_add"
    /\ resp.message = "IntegrityError"
    /\ Cardinality(orders) = 1
    /\ \A w \in Workers : saving[w] = Idle


(***************************************************************************)
(* SpecPartial: purchase orders whose creation fails part of the way       *)
(***************************************************************************)
PartialOrders == [client : {1}, order_type : {"purchase", "sales"}, total : {Some(1000), Null},
                  items : {{}, {1}}, qty : {"", "1", "abc"}]

NextPartial ==
    \/ \E t \in tokens, req \in PartialOrders :
          nextId["order"] <= MaxRows /\ CreatePurchaseOrderView_post(t, req)
    \/ \E t \in tokens, order_id \in RowIds : PurchaseOrderDetailView_delete(t, order_id)

SpecPartial == InitLedger /\ [][NextPartial]_vars

\* C19: CreatePurchaseOrderView.post inserts the order header and then each
\* order item as separate writes with no transaction, so a failure after the
\* header insert and before the item inserts (here an item whose quantity does
\* not validate) leaves a persisted purchase order with no items: the request
\* is answered 400 and the new header stays, without items.
C19_HeaderWithoutItems ==
    [][\A t \in tokens, req \in PartialOrders :
          (/\ req.items # {} /\ req.qty = "abc"
           /\ OrderRefusal(request_user(t), req) = ""
           /\ CreatePurchaseOrderView_post(t, req)) =>
             /\ resp'.status = 400
             /\ \E o \in orders' \ orders :
                   /\ o.id = nextId["order"]
                   /\ o.user = request_user(t).user_id
                   /\ o.items = {}
             /\ activity' = activity]_vars

\* a request with an item was answered 400 and its header is on file, empty
C19_Witness ==
    /\ resp.op = "order_add"
    /\ resp.status = 400
    /\ resp.message = "items_serializer.errors"
    /\ \E o \in orders : o.id + 1 = nextId["order"] /\ o.items = {}
    /\ activity = {}


\* verify requests that carry all three fields
FullVerifyReqs == {req \in VerifyReqs : req.email # NoEmail /\ req.otp_code # "" /\ req.otp_type # ""}

\* C21: an OTP is single-use. Once VerifyOTPView.post has accepted a code for
\* (email, otp_type), no row matches that email, type and code any more; a row
\* that matches comes into being only by a SendOTP for that pair; and a verify
\* request that no row matches is answered 400 "Invalid OTP.". So a repeat of
\* an accepted request is refused until a new SendOTP for the pair.
C21_OtpSingleUse ==
    [][LET invalid == /\ resp'.status = 400 /\ resp'.message = "Invalid OTP."
                      /\ otps' = otps /\ users' = users IN
       /\ (resp'.op = "verify_otp" /\ resp'.status = 200) =>
             \A req \in FullVerifyReqs :
                (MatchingOtps(req) # {} /\ VerifyOTPView_post(req)) => MatchingOtps(req)' = {}
       /\ (resp'.op = "verify_otp" /\ ~invalid) =>
             \A req \in FullVerifyReqs : MatchingOtps(req) = {} => ~VerifyOTPView_post(req)
       /\ otps' # otps =>
             \A req \in FullVerifyReqs :
                (MatchingOtps(req) = {} /\ MatchingOtps(req)' # {})
                   => /\ resp'.op = "send_otp" /\ resp'.status = 200
                      /\ \A o \in MatchingOtps(req)' : o.id = nextId["otp"]]_vars

\* the only OTP ever sent was accepted (it verified an email) and a later
\* verify request has been refused as invalid
C21_Witness ==
    /\ resp.op = "verify_otp"
    /\ resp.status = 400
    /\ resp.message = "Invalid OTP."
    /\ nextId["otp"] = 2
    /\ otps = {}
    /\ \E u \in users : u.is_email_verified


(***************************************************************************)
(* SpecMonths: the two month-wise charts drawn for date ranges, while the  *)
(* sales invoice on file is paid and unpaid                                *)
(***************************************************************************)
ReportDates ==
    {Null, Some(<<BaseYear, 13, 1>>)} \cup
    {Some(<<BaseYear + d[1], d[2], d[3]>>) :
        d \in {<<0, 1, 10>>, <<0, 3, 10>>, <<0, 3, 20>>, <<0, 12, 10>>, <<1, 2, 10>>}}

ReportDays == {[year |-> BaseYear, month |-> 3, day |-> 15]}

NextMonths ==
    \/ \E t \in tokens, start_date \in ReportDates, end_date \in ReportDates, today \in ReportDays :
          SalesByClientReportView_get(t, start_date, end_date, today)
    \/ \E t \in tokens, start_date \in ReportDates, end_date \in ReportDates, today \in ReportDays :
          TaxOnSalesReportView_get(t, start_date, end_date, today)
    \/ \E t \in tokens, status_value \in {"Paid", "Pending", "Overdue"} :
          UpdateInvoiceStatus_get(t, 1, status_value)

SpecMonths == InitBooks /\ [][NextMonths]_vars

\* months since year 0
MonthIndex(date) == date.year * 12 + date.month - 1

\* the series has one entry for each calendar month from the month of first
\* through the month of last, in order, and none when that span is empty
Covers(series, first, last) ==
    /\ Len(series) = IF first > last THEN 0 ELSE last - first + 1
    /\ \A k \in 1..Len(series) : series[k].label = Abbr[((first + k - 1) % 12) + 1]

\* the span of months the claim names for a request
CoversRange(op, series, start_date, end_date, today) ==
    LET start_dt == _parse_date(Val(start_date))
        end_dt == IF end_date = Null THEN today ELSE _parse_date(Val(end_date)) IN
    IF op = "sales_by_client"
    THEN IF start_date # Null
         THEN Covers(series, MonthIndex(start_dt), MonthIndex(end_dt))
         ELSE Covers(series, MonthIndex(end_dt) - 11, MonthIndex(end_dt))
    ELSE IF start_date # Null /\ end_date # Null
         THEN Covers(series, MonthIndex(start_dt), MonthIndex(end_dt))
         ELSE Covers(series, today.year * 12, today.year * 12 + 11)

\* the request was answered with the chart
Charted(op, t, start_date, end_date, today) ==
    /\ resp'.status = 200
    /\ listing'.op = op
    /\ t.user_id = listing'.user
    /\ IF op = "sales_by_client" THEN SalesByClientReportView_get(t, start_date, end_date, today)
       ELSE TaxOnSalesReportView_get(t, start_date, end_date, today)

ChartOps == {"sales_by_client", "tax_on_sales"}

\* C22 (as claimed): the month-wise series of SalesByClientReportView and
\* TaxOnSalesReportView has exactly one entry for each calendar month from the
\* month of the start date through the month of the end date, in order (12
\* months ending at the end month when SalesByClient has no start_date), and
\* the series is empty when the start date is after the end date.
C22_SeriesEmptyWhenStartAfterEnd ==
    [][resp'.op \in ChartOps =>
         \A t \in tokens, start_date \in ReportDates, end_date \in ReportDates,
            today \in ReportDays :
            Charted(resp'.op, t, start_date, end_date, today) =>
               /\ CoversRange(resp'.op, listing'.parts, start_date, end_date, today)
               /\ (/\ start_date # Null /\ end_date # Null
                   /\ ~DateLE(_parse_date(Val(start_date)), _parse_date(Val(end_date))))
                     => listing'.parts = <<>>]_vars

\* C22 (amended): the series has exactly one entry for each calendar month from
\* the month of the start date through the month of the end date, in order (12
\* months ending at the end month when SalesByClient has no start_date, the 12
\* months of the current year when TaxOnSales lacks a date); the walk ends for
\* every range, and the series is empty when the start month is after the end
\* month.
C22_SeriesCoversMonths ==
    [][resp'.op \in ChartOps =>
         \A t \in tokens, start_date \in ReportDates, end_date \in ReportDates,
            today \in ReportDays :
            Charted(resp'.op, t, start_date, end_date, today) =>
               CoversRange(resp'.op, listing'.parts, start_date, end_date, today)]_vars

\* a chart that runs over the turn of the year: December, January, February
C22_Witness ==
    /\ resp.op \in ChartOps
    /\ resp.status = 200
    /\ Len(listing.parts) = 3
    /\ listing.parts[1].label = "Dec"
    /\ listing.parts[3].label = "Feb"


(***************************************************************************)
(* SpecShared: two users whose names give the same two-letter prefix, each *)
(* with a client and a product, create and delete purchase orders          *)
(***************************************************************************)
InitShared ==
    /\ users = {Registered(1, "Al", "a@x.io", 1, TRUE), Registered(2, "Ali", "b@x.io", 2, FALSE)}
    /\ nextUserId = 3
    /\ tokens = {[user_id |-> i, exp |-> TokenLife, signed |-> TRUE] : i \in {1, 2}}
    /\ now = 0
    /\ logins = [i \in UserIds |-> IF i = 2 THEN 1 ELSE 0]
    /\ stale = {}
    /\ otps = {}
    /\ companies = {}
    /\ saving = [w \in Workers |-> Idle]
    /\ resp = Response("register", 200, "User registered successfully.",
                       [user_id |-> 2, exp |-> TokenLife, signed |-> TRUE])
    /\ clients = {[id |-> i, user |-> i, is_deleted |-> FALSE, client_name |-> "Acme"] : i \in {1, 2}}
    /\ categories = {[id |-> i, user |-> i, is_deleted |-> FALSE, is_active |-> TRUE,
                      category_name |-> "books"] : i \in {1, 2}}
    /\ products = {[id |-> i, user |-> i, is_deleted |-> FALSE, name |-> "novel",
                    category |-> i] : i \in {1, 2}}
    /\ orders = {}
    /\ invoices = {}
    /\ expenses = {}
    /\ activity = {}
    /\ nextId = [tb \in Tables |-> IF tb \in {"client", "category", "product"} THEN 3 ELSE 1]
    /\ listing = NoListing

SharedOrders == [client : {1, 2}, order_type : {"purchase", "sales"}, total : {Some(1000)},
                 items : {{1}, {2}}, qty : {"1"}]

NextShared ==
    \/ \E t \in tokens, req \in SharedOrders :
          nextId["order"] <= MaxRows + 1 /\ CreatePurchaseOrderView_post(t, req)
    \/ \E t \in tokens, order_id \in 1..(MaxRows + 1) : PurchaseOrderDetailView_delete(t, order_id)

SpecShared == InitShared /\ [][NextShared]_vars

\* C23 (as claimed): the creation of a purchase order for one user does not
\* depend on other users' data: whatever orders other users have, also users
\* whose name gives the same two-letter prefix, a creation with the user's own
\* product does not fail and stores the next number of the user's own sequence.
C23_CreationIgnoresOtherUsers ==
    [][\A t \in tokens, req \in SharedOrders :
          (/\ OrderRefusal(request_user(t), req) = ""
           /\ CreatePurchaseOrderView_post(t, req)) =>
             /\ resp'.status = 200
             /\ \E o \in orders' \ orders :
                   /\ o.user = request_user(t).user_id
                   /\ o.order_number = generated_number(request_user(t))]_vars

\* what does hold: a creation fails only when the number of the user's own
\* sequence is carried by an order of another user
C23_FailsOnlyOnSharedNumber ==
    [][\A t \in tokens, req \in SharedOrders :
          (/\ OrderRefusal(request_user(t), req) = ""
           /\ CreatePurchaseOrderView_post(t, req)
           /\ resp'.status # 200) =>
             /\ resp'.message = "IntegrityError"
             /\ \E o \in orders : /\ o.user # request_user(t).user_id
                                  /\ o.order_number = generated_number(request_user(t))]_vars


(***************************************************************************)
(* SpecSelf: users who registered through RegisterView, with no admin on   *)
(* file, update their own profile and call the admin user list             *)
(***************************************************************************)
RolePatches == {[NoPatch EXCEPT !.user_role = r] : r \in {1, 2}}
SelfRegister == ValidRegister(Emails, {"password1"}, BOOLEAN, BOOLEAN) \cup InvalidRegister
SelfPuts == AdminPatches \cup RolePatches \cup EmailPatches

NextSelf ==
    \/ \E req \in SelfRegister : RegisterView_post(req)
    \/ \E t \in tokens, req \in SelfPuts : UserProfileView_put(t, req)
    \/ \E t \in tokens : UserListView_get(t)

SpecSelf == InitUsers /\ [][NextSelf]_vars

\* C24 (as claimed): with no admin acting, a user created through RegisterView
\* never has is_admin true or the admin role, whatever the register payload and
\* the user's own profile updates carry, and every call of the admin user list
\* is answered 401 "Only Admins Are Allowed."
C24_NoSelfPromotion ==
    /\ \A u \in users : ~u.is_admin /\ role_name(u.user_role) # "admin"
    /\ resp.op = "user_list" =>
          resp.status = 401 /\ resp.message = "Only Admins Are Allowed."

\* what does hold: RegisterView writes role 2 whatever the payload carries, and
\* the admin user list answers 401 to every user whose role is not admin
C24_RegisterWritesCustomerRole ==
    [][/\ \A req \in SelfRegister :
             RegisterView_post(req) => \A u \in users' \ users : u.user_role = 2
       /\ \A t \in tokens :
             (/\ has_permission(t)
              /\ role_name(request_user(t).user_role) # "admin"
              /\ UserListView_get(t)) =>
                resp'.status = 401 /\ resp'.message = "Only Admins Are Allowed."]_vars


LedgerAdds == {"order_add", "invoice_add"}

\* C25 (as claimed): whenever CreatePurchaseOrderView.post or AddInvoiceView.post
\* answers 400 the stored state is as it was before the request: no order or
\* invoice header, no line item and no activity-log entry has been added, also
\* when items is empty or missing or a line item fails validation.
C25_Rejected400StoresNothing ==
    [][(resp'.op \in LedgerAdds /\ resp'.status = 400) =>
          /\ orders' = orders
          /\ invoices' = invoices
          /\ activity' = activity]_vars

\* what does hold: the 400 answers given before serializer.save() store nothing
C25_ValidationRefusalsStoreNothing ==
    [][(/\ resp'.op \in LedgerAdds
        /\ resp'.status = 400
        /\ resp'.message \notin Exceptions \cup {"items_serializer.errors"}) =>
          /\ orders' = orders
          /\ invoices' = invoices
          /\ activity' = activity]_vars

====
